---- MODULE Spec2Model ----
(***************************************************************************)
(* Model of the apartment-finder scrape pipeline: the Listing identity     *)
(* (src/models/listing.py), the SQLite listing store                       *)
(* (src/models/database.py) and the scrape orchestrator (src/server.py).   *)
(*                                                                         *)
(* Text is modelled as a sequence of one-character strings.  The sha256    *)
(* digest is modelled as an injective tagging of the hashed content, so    *)
(* two ids are equal exactly when the hashed strings are equal.            *)
(***************************************************************************)
EXTENDS Integers, Sequences, FiniteSets, TLC

(***************************************************************************)
(* Bounds                                                                  *)
(***************************************************************************)
MaxPass == 2        \* longest list one scraper.scrape() call returns
MaxRuns == 2        \* top-level runs (scrape_all / scrape <site>) explored
MaxClock == 1       \* largest value of the wall clock

\* Python's None and a present optional value
None == <<>>
Some(x) == <<x>>
The(opt) == opt[1]

(***************************************************************************)
(* Configuration (settings.sites) and the page content the sites can show  *)
(***************************************************************************)
SiteA == <<"a">>
SiteB == <<"a", "|">>
Sites == <<SiteA, SiteB>>
SiteNames == {Sites[k] : k \in 1..Len(Sites)}

\* the non-identity fields a parsed candidate can carry
FieldsA ==
    [price |-> None, bedrooms |-> None, bathrooms |-> None, sqft |-> None,
     available |-> TRUE, move_in_date |-> None]
FieldsB ==
    [price |-> Some(1500), bedrooms |-> Some(2), bathrooms |-> Some(1),
     sqft |-> Some(803), available |-> FALSE, move_in_date |-> Some(7)]

Candidate(title, url, fields) == [title |-> title, url |-> url, fields |-> fields]

\* the candidates (title, url, parsed fields) the page of a site can show
PageContent(site_name) ==
    IF site_name = SiteA
    THEN { Candidate(<<"x">>, <<"u">>, FieldsA),
           Candidate(<<"x">>, <<"u">>, FieldsB),
           Candidate(<<"|", "x">>, <<"u">>, FieldsA) }
    ELSE { Candidate(<<"x">>, <<"u">>, FieldsA) }

(***************************************************************************)
(* Listing (src/models/listing.py)                                         *)
(***************************************************************************)
\* hashlib.sha256(content.encode()).hexdigest()[:16], taken as injective
Sha256Hex16(content) == <<"sha256", content>>

GenerateId(site_name, title, url) ==
    Sha256Hex16(site_name \o <<"|">> \o title \o <<"|">> \o url)

\* mutant: the hashed content also takes in the price
Listing_HashesPrice(site_name, title, url, v, scraped_at, id) ==
    [site_name |-> site_name, title |-> title, url |-> url,
     price |-> v.price, bedrooms |-> v.bedrooms, bathrooms |-> v.bathrooms,
     sqft |-> v.sqft, available |-> v.available,
     move_in_date |-> v.move_in_date, scraped_at |-> scraped_at,
     id |-> IF id = <<>>
            THEN Sha256Hex16(site_name \o <<"|">> \o title \o <<"|">> \o url
                                 \o <<"|">> \o <<v.price>>)
            ELSE id]

\* Listing(...) followed by __post_init__: the id is generated when empty
Listing(site_name, title, url, v, scraped_at, id) ==
    [site_name |-> site_name, title |-> title, url |-> url,
     price |-> v.price, bedrooms |-> v.bedrooms, bathrooms |-> v.bathrooms,
     sqft |-> v.sqft, available |-> v.available,
     move_in_date |-> v.move_in_date, scraped_at |-> scraped_at,
     id |-> IF id = <<>> THEN GenerateId(site_name, title, url) ELSE id]

IsoFormat(t) == <<"iso", t>>
FromIsoFormat(s) == s[2]

ToDict(l) ==
    [id |-> l.id, site_name |-> l.site_name, title |-> l.title, url |-> l.url,
     price |-> l.price, bedrooms |-> l.bedrooms, bathrooms |-> l.bathrooms,
     sqft |-> l.sqft, available |-> l.available,
     move_in_date |-> IF l.move_in_date # None
                      THEN Some(IsoFormat(The(l.move_in_date))) ELSE None,
     scraped_at |-> IsoFormat(l.scraped_at)]

\* Listing.from_dict applied to a stored row: the id of the row is kept
FromDict(data) ==
    Listing(data.site_name, data.title, data.url,
            [price |-> data.price, bedrooms |-> data.bedrooms,
             bathrooms |-> data.bathrooms, sqft |-> data.sqft,
             available |-> data.available,
             move_in_date |-> IF data.move_in_date # None
                              THEN Some(FromIsoFormat(The(data.move_in_date)))
                              ELSE None],
            FromIsoFormat(data.scraped_at), data.id)

(***************************************************************************)
(* State                                                                   *)
(***************************************************************************)
VARIABLES
    db,                   \* rows of table listings (src/models/database.py)
    now,                  \* wall clock: datetime.now() / CURRENT_TIMESTAMP
    pc,                   \* position of the running coroutine
    mode,                 \* "all": scrape_all, "site": _handle_scrape_site
    siteIdx,              \* index of the for-loop of scrape_all in settings.sites
    site,                 \* site_config.name of the running scrape_site
    all_listings,         \* scrape_site: result of scraper.scrape()
    i,                    \* scrape_site: index of the for-loop in all_listings
    new_listings,         \* scrape_site: new_listings
    removed_listings,     \* scrape_site: value bound to removed_listings
    outcome,              \* how the last scrape_site ended
    all_new_listings,     \* scrape_all: all_new_listings
    all_removed_listings, \* scrape_all: all_removed_listings
    last_scrape,          \* ApartmentFinderServer._last_scrape
    response,             \* what _handle_scrape_site answered
    runs,                 \* number of top-level runs started
    db0,                  \* history: db when the running scrape_site started
    staleRows,            \* history: rows deleted by the last remove_stale_listings
    lastSaved,            \* history: the Listings handed to save_listing, by id
    siteLog,              \* history: the scrape_site calls of the running scrape_all
    prevIds,              \* history: the id sets of the previous run's passes, if a scrape_all
    container,            \* field parsing: the candidate element handed to _parse_listing
    emitted,              \* field parsing: what _parse_listing did with it
    parsed,               \* field parsing: what the field parsers made of its text
    settings,             \* settings.sites: the SiteConfig of every site
    scraper,              \* the scraper instance of the running scrape_site
    spc,                  \* position inside the scraper (scrape / close)
    page,                 \* PlaywrightScraper.scrape: page
    elapsed,              \* time the running wait has lasted, in ms
    elements,             \* _scrape_with_clicks: number of elements found
    click_idx,            \* _scrape_with_clicks: index of the for-loop
    seen_ids,             \* _scrape_with_clicks: seen_ids
    scrape_listings,      \* the scraper's list of Listings (all_listings / listings)
    exc,                  \* the exception propagating out of scrape(), if any
    live,                 \* engines, browsers, pages and HTTP clients now open
    closes,               \* history: close() calls on the instance
    released,             \* history: resources released by the last close()
    trail,                \* history: what happened to the scrapers of the running scrape_all
    first_seen,           \* history: per id, the first Listing the click loop was handed
    acquired,             \* history: resources the instance has acquired
    prevCall,             \* history: ids of the pass of the call before, if for the same site
    run2,                 \* a second run of scrape_site that overlaps the first
    message,              \* TelegramClient._split_message: text and max_length
    chunks                \* TelegramClient._split_message: the list returned

vars == <<db, now, pc, mode, siteIdx, site, all_listings, i, new_listings,
          removed_listings, outcome, all_new_listings, all_removed_listings,
          last_scrape, response, runs, db0, staleRows, lastSaved, siteLog, prevIds,
          container, emitted, parsed,
          settings, scraper, spc, page, elapsed, elements, click_idx, seen_ids,
          scrape_listings, exc, live, closes, released, trail, first_seen,
          acquired, prevCall, run2, message, chunks>>

\* the variables of the field-parsing steps
parseVars == <<container, emitted, parsed>>
\* the variables of the scraper instance and of the resources it holds
scraperVars == <<settings, scraper, spc, page, elapsed, elements, click_idx,
                 seen_ids, scrape_listings, exc, live, closes, released, trail,
                 first_seen, acquired>>

(***************************************************************************)
(* Python values whose dynamic type matters                                *)
(***************************************************************************)
PyInt(n) == [type |-> "int", value |-> n]
PyList(s) == [type |-> "list", value |-> s]
\* bool(v), as used by `if removed_listings:`
PyTruthy(v) == IF v.type = "int" THEN v.value # 0 ELSE Len(v.value) # 0
\* len(v) and iteration are defined for lists only; on an int they raise TypeError
PyHasLen(v) == v.type = "list"
PyIterable(v) == v.type = "list"

Range(s) == {s[k] : k \in 1..Len(s)}
Ids(rows) == {r.id : r \in rows}
ListingIds(s) == {s[k].id : k \in 1..Len(s)}

(***************************************************************************)
(* Database (src/models/database.py)                                       *)
(***************************************************************************)
\* mutant: the test of the fetched row is inverted (row is not None)
IsNewListing_Inverted(rows, listing_id) == \E r \in rows : r.id = listing_id

\* SELECT 1 FROM listings WHERE id = ?  ->  row is None
IsNewListing(rows, listing_id) == \A r \in rows : r.id # listing_id

\* the row INSERT OR REPLACE writes: the eleven bound values plus created_at,
\* which takes its default CURRENT_TIMESTAMP
RowOf(listing, clock) ==
    LET data == ToDict(listing) IN
    [id |-> data.id, site_name |-> data.site_name, title |-> data.title,
     url |-> data.url, price |-> data.price, bedrooms |-> data.bedrooms,
     bathrooms |-> data.bathrooms, sqft |-> data.sqft,
     available |-> IF data.available THEN 1 ELSE 0,
     move_in_date |-> data.move_in_date, scraped_at |-> data.scraped_at,
     created_at |-> clock]

\* mutant: the commit is missing, so the row is lost with the connection
SaveListing_NoCommit(rows, listing, clock) == rows

\* mutant: INSERT OR IGNORE, an existing row with the key is kept
SaveListing_InsertOrIgnore(rows, listing, clock) ==
    IF \E r \in rows : r.id = listing.id THEN rows
    ELSE rows \cup {RowOf(listing, clock)}

\* INSERT OR REPLACE: a row with the same primary key is deleted first
SaveListing(rows, listing, clock) ==
    {r \in rows : r.id # listing.id} \cup {RowOf(listing, clock)}

\* mutant: the SELECT misses its WHERE site_name = ? clause
StaleIds_AnySite(rows, site_name, current_ids) ==
    IF current_ids = {} THEN {}
    ELSE {r.id : r \in rows} \ current_ids

\* mutant: the early return on an empty current_ids is missing
StaleIds_NoEmptyGuard(rows, site_name, current_ids) ==
    {r.id : r \in {q \in rows : q.site_name = site_name}} \ current_ids

\* mutant: the set difference is taken the wrong way round
StaleIds_Reversed(rows, site_name, current_ids) ==
    IF current_ids = {} THEN {}
    ELSE current_ids \ {r.id : r \in {q \in rows : q.site_name = site_name}}

\* remove_stale_listings: the ids it deletes
StaleIds(rows, site_name, current_ids) ==
    IF current_ids = {} THEN {}
    ELSE {r.id : r \in {q \in rows : q.site_name = site_name}} \ current_ids

\* remove_stale_listings: the table afterwards (DELETE ... WHERE id IN stale_ids)
RemoveStaleListings(rows, site_name, current_ids) ==
    {r \in rows : r.id \notin StaleIds(rows, site_name, current_ids)}

\* remove_stale_listings: the value returned, len(stale_ids) or 0
RemoveStaleResult(rows, site_name, current_ids) ==
    PyInt(Cardinality(StaleIds(rows, site_name, current_ids)))

(***************************************************************************)
(* Scrapers (src/scrapers): what scraper.scrape() can return for a site    *)
(***************************************************************************)
\* _parse_listing: the Listing built from one candidate, observed at `clock`
ParseListing(site_name, c, clock) ==
    Listing(site_name, c.title, c.url, c.fields, clock, <<>>)

SeqsUpTo(S, n) == UNION {[1..k -> S] : k \in 0..n}

\* the lists of candidates one extraction pass can yield
Passes(site_name) == SeqsUpTo(PageContent(site_name), MaxPass)

(***************************************************************************)
(* Initial state: a server started on a fresh database                     *)
(***************************************************************************)
NoResult == PyInt(0)

\* the orchestrator and the store right after startup
OrchInit ==
    /\ db = {}
    /\ pc = "idle"
    /\ mode = "none"
    /\ siteIdx = 0
    /\ site = <<>>
    /\ all_listings = <<>>
    /\ i = 0
    /\ new_listings = <<>>
    /\ removed_listings = NoResult
    /\ outcome = "none"
    /\ all_new_listings = <<>>
    /\ all_removed_listings = <<>>
    /\ last_scrape = None
    /\ response = "none"
    /\ runs = 0
    /\ db0 = {}
    /\ staleRows = {}
    /\ lastSaved = {}
    /\ siteLog = <<>>
    /\ prevIds = <<>>
    /\ prevCall = None
    /\ run2 = None

\* no message is being split
NoMessage == message = None /\ chunks = None

\* the variables of the orchestrator and the store
orchVars == <<db, pc, mode, siteIdx, site, all_listings, i, new_listings,
              removed_listings, outcome, all_new_listings, all_removed_listings,
              last_scrape, response, runs, db0, staleRows, lastSaved, siteLog,
              prevIds, prevCall, run2, message, chunks>>

\* SiteConfig and ClickEachConfig (src/config/settings.py)
SiteConfig(name, scraper_type, wait_for, click_each) ==
    [name |-> name, scraper_type |-> scraper_type, wait_for |-> wait_for,
     click_each |-> click_each]
ClickEachConfig == [selector |-> "tab", wait_after |-> 2000]

\* the configurations of the two sites: the first is rendered in a browser,
\* with or without a readiness selector and a click-through; the second is
\* fetched as static HTML or rendered in a browser too
SettingsChoices ==
    {<<SiteConfig(SiteA, "playwright", None, None),
       SiteConfig(SiteB, "static", None, None)>>,
     <<SiteConfig(SiteA, "playwright", Some("ready"), Some(ClickEachConfig)),
       SiteConfig(SiteB, "static", None, None)>>,
     <<SiteConfig(SiteA, "playwright", None, Some(ClickEachConfig)),
       SiteConfig(SiteB, "playwright", Some("ready"), None)>>}
DefaultSettings ==
    <<SiteConfig(SiteA, "playwright", None, None), SiteConfig(SiteB, "static", None, None)>>

\* nothing is open
NoLive == [engines |-> 0, browsers |-> 0, pages |-> 0, clients |-> 0]

\* no scraper instance exists: the locals of scrape() and close()
NoScraper ==
    /\ scraper = None
    /\ spc = "none"
    /\ page = None
    /\ elapsed = 0
    /\ elements = 0
    /\ click_idx = 0
    /\ seen_ids = {}
    /\ scrape_listings = <<>>
    /\ exc = None
    /\ closes = 0
    /\ released = 0
    /\ first_seen = {}
    /\ acquired = 0

\* no scraper instance exists and nothing is open
ScraperInit ==
    /\ NoScraper
    /\ live = NoLive
    /\ trail = {}

Init ==
    /\ OrchInit
    /\ NoMessage
    /\ now = 0
    /\ container = None
    /\ emitted = None
    /\ parsed = None
    /\ settings = DefaultSettings
    /\ ScraperInit

Idle == pc \in {"idle", "all_done", "site_done"}

\* the ids of the pass of the scrape_site call that has just ended, when it
\* was a call for site_name and its scraper.scrape() returned
LastCall(site_name) ==
    IF site = site_name /\ i > 0 THEN Some(ListingIds(all_listings)) ELSE None

\* scrape_site entered for site_name: its locals are fresh
EnterScrapeSite(site_name) ==
    /\ site' = site_name
    /\ all_listings' = <<>>
    /\ i' = 0
    /\ new_listings' = <<>>
    /\ removed_listings' = NoResult
    /\ outcome' = "none"
    /\ db0' = db
    /\ staleRows' = {}
    /\ prevCall' = LastCall(site_name)
    /\ pc' = "scrape"

\* a finished scrape_all leaves the id sets of its passes to the next run
LogOfFinishedRun ==
    IF pc = "all_done" THEN [k \in 1..Len(siteLog) |-> siteLog[k].ids] ELSE <<>>

(***************************************************************************)
(* Orchestrator (src/server.py)                                            *)
(***************************************************************************)
\* scrape_all is called (scheduled job, POST /scrape, "scrape" command)
\* and enters scrape_site for the first configured site
StartScrapeAll ==
    /\ Idle
    /\ runs < MaxRuns
    /\ runs' = runs + 1
    /\ mode' = "all"
    /\ all_new_listings' = <<>>
    /\ all_removed_listings' = <<>>
    /\ siteIdx' = 1
    /\ prevIds' = LogOfFinishedRun
    /\ siteLog' = <<>>
    /\ EnterScrapeSite(Sites[1])
    /\ UNCHANGED <<db, now, last_scrape, lastSaved>>
    /\ response' = "none"
    /\ UNCHANGED <<parseVars, scraperVars>>
    /\ UNCHANGED <<run2, message, chunks>>

\* _handle_scrape_site is called for a configured site ("scrape <site>")
StartScrapeSite ==
    /\ Idle
    /\ runs < MaxRuns
    /\ \E k \in 1..Len(Sites) :
          /\ siteIdx' = k
          /\ EnterScrapeSite(Sites[k])
    /\ runs' = runs + 1
    /\ mode' = "site"
    /\ all_new_listings' = <<>>
    /\ all_removed_listings' = <<>>
    /\ prevIds' = LogOfFinishedRun
    /\ siteLog' = <<>>
    /\ UNCHANGED <<db, now, last_scrape, lastSaved>>
    /\ response' = "none"
    /\ UNCHANGED <<parseVars, scraperVars>>
    /\ UNCHANGED <<run2, message, chunks>>

\* where control goes when scrape_site returns or raises
AfterScrapeSite == IF mode = "all" THEN "agg" ELSE "handled"

\* scraper.scrape() returns the Listings of one pass; the for-loop starts
ScrapeReturns ==
    /\ pc = "scrape"
    /\ \E p \in Passes(site) :
          /\ all_listings' = [k \in 1..Len(p) |-> ParseListing(site, p[k], now)]
          /\ i' = 1
          /\ pc' = IF Len(p) = 0 THEN "stale" ELSE "check"
    /\ UNCHANGED <<db, now, mode, siteIdx, site, new_listings, removed_listings,
                   outcome, all_new_listings, all_removed_listings, last_scrape, response,
                   runs, db0, staleRows, lastSaved, siteLog, prevIds, prevCall, run2,
                   message, chunks>>
    /\ UNCHANGED <<parseVars, scraperVars>>

\* scraper.scrape() raises (fetch failure, timeout, ...): scrape_site raises
ScrapeRaises ==
    /\ pc = "scrape"
    /\ outcome' = "raised"
    /\ pc' = AfterScrapeSite
    /\ UNCHANGED <<db, now, mode, siteIdx, site, all_listings, i, new_listings,
                   removed_listings, all_new_listings, all_removed_listings,
                   last_scrape, response, runs, db0, staleRows, lastSaved, siteLog, prevIds, prevCall, run2,
                   message, chunks>>
    /\ UNCHANGED <<parseVars, scraperVars>>

\* if await self.db.is_new_listing(listing.id): new_listings.append(listing)
CheckNew ==
    /\ pc = "check"
    /\ new_listings' = IF IsNewListing(db, all_listings[i].id)
                       THEN Append(new_listings, all_listings[i])
                       ELSE new_listings
    /\ pc' = "save"
    /\ UNCHANGED <<db, now, mode, siteIdx, site, all_listings, i, removed_listings,
                   outcome, all_new_listings, all_removed_listings, last_scrape, response,
                   runs, db0, staleRows, lastSaved, siteLog, prevIds, prevCall, run2,
                   message, chunks>>
    /\ UNCHANGED <<parseVars, scraperVars>>

\* await self.db.save_listing(listing); then the next listing or the loop's end
Save ==
    /\ pc = "save"
    /\ db' = SaveListing(db, all_listings[i], now)
    /\ lastSaved' = {l \in lastSaved : l.id # all_listings[i].id}
                        \cup {all_listings[i]}
    /\ i' = i + 1
    /\ pc' = IF i < Len(all_listings) THEN "check" ELSE "stale"
    /\ UNCHANGED <<now, mode, siteIdx, site, all_listings, new_listings,
                   removed_listings, outcome, all_new_listings,
                   all_removed_listings, last_scrape, response, runs, db0, staleRows,
                   siteLog, prevIds, prevCall, run2,
                   message, chunks>>
    /\ UNCHANGED <<parseVars, scraperVars>>

\* current_ids = {...}; removed_listings = await self.db.remove_stale_listings(...)
RemoveStale ==
    /\ pc = "stale"
    /\ LET current_ids == ListingIds(all_listings) IN
          /\ removed_listings' = RemoveStaleResult(db, site, current_ids)
          /\ db' = RemoveStaleListings(db, site, current_ids)
          /\ staleRows' = db \ RemoveStaleListings(db, site, current_ids)
          /\ lastSaved' = {l \in lastSaved :
                              l.id \in Ids(RemoveStaleListings(db, site, current_ids))}
    /\ pc' = "ret"
    /\ UNCHANGED <<now, mode, siteIdx, site, all_listings, i, new_listings,
                   outcome, all_new_listings, all_removed_listings, last_scrape, response,
                   runs, db0, siteLog, prevIds, prevCall, run2,
                   message, chunks>>
    /\ UNCHANGED <<parseVars, scraperVars>>

\* if removed_listings: logger.info(f"... {len(removed_listings)} ...")
\* return new_listings, removed_listings
\* len() of the int remove_stale_listings returned raises TypeError
ScrapeSiteRaisesOnLen(v) == PyTruthy(v) /\ ~PyHasLen(v)

ReturnFromScrapeSite ==
    /\ pc = "ret"
    /\ outcome' = IF ScrapeSiteRaisesOnLen(removed_listings)
                  THEN "raised" ELSE "returned"
    /\ pc' = AfterScrapeSite
    /\ UNCHANGED <<db, now, mode, siteIdx, site, all_listings, i, new_listings,
                   removed_listings, all_new_listings, all_removed_listings,
                   last_scrape, response, runs, db0, staleRows, lastSaved, siteLog, prevIds, prevCall, run2,
                   message, chunks>>
    /\ UNCHANGED <<parseVars, scraperVars>>

\* what one scrape_site call did, as scrape_all or the handler sees it
LogEntry ==
    [site |-> site,
     outcome |-> outcome,
     ids |-> IF i = 0 THEN None ELSE Some(ListingIds(all_listings)),
     new |-> IF outcome = "returned" THEN new_listings ELSE <<>>,
     stale |-> staleRows]

\* mutant: the two extend calls are swapped, so the TypeError of the other
\* one comes first
ExtendNew_AfterRemoved(acc, oc, new, removed) ==
    IF oc = "returned" /\ PyIterable(removed) THEN acc \o new ELSE acc

\* scrape_all, try body: all_new_listings.extend(new_listings) runs once
\* scrape_site has returned
ExtendNew(acc, oc, new, removed) ==
    IF oc = "returned" THEN acc \o new ELSE acc

\* scrape_all, try body: all_removed_listings.extend(removed_listings);
\* extending by an int raises TypeError, which the except clause swallows
ExtendRemoved(acc, oc, new, removed) ==
    IF oc = "returned" /\ PyIterable(removed) THEN acc \o removed.value ELSE acc

\* scrape_all: the rest of one loop iteration, then the next site or the end
Aggregate ==
    /\ pc = "agg"
    /\ all_new_listings' =
          ExtendNew(all_new_listings, outcome, new_listings, removed_listings)
    /\ all_removed_listings' =
          ExtendRemoved(all_removed_listings, outcome, new_listings, removed_listings)
    /\ siteLog' = Append(siteLog, LogEntry)
    /\ IF siteIdx < Len(Sites)
       THEN /\ siteIdx' = siteIdx + 1
            /\ EnterScrapeSite(Sites[siteIdx + 1])
            /\ UNCHANGED last_scrape
       ELSE /\ last_scrape' = Some(now)
            /\ pc' = "all_done"
            /\ UNCHANGED <<siteIdx, site, all_listings, i, new_listings,
                           removed_listings, outcome, db0, staleRows,
                           prevCall>>
    /\ UNCHANGED <<db, now, mode, response, runs, lastSaved, prevIds, run2,
                   message, chunks>>
    /\ UNCHANGED <<parseVars, scraperVars>>

\* _handle_scrape_site: the summary of the result, or the error text
HandleScrapeSiteReply ==
    /\ pc = "handled"
    /\ response' = IF outcome = "returned" THEN "summary" ELSE "error"
    /\ siteLog' = Append(siteLog, LogEntry)
    /\ pc' = "site_done"
    /\ UNCHANGED <<db, now, mode, siteIdx, site, all_listings, i, new_listings,
                   removed_listings, outcome, all_new_listings,
                   all_removed_listings, last_scrape, runs, db0, staleRows,
                   lastSaved, prevIds, prevCall, run2,
                   message, chunks>>
    /\ UNCHANGED <<parseVars, scraperVars>>

\* time passes; only the steps that read the clock (Listing construction in
\* scrape(), CURRENT_TIMESTAMP in save_listing, datetime.now() in scrape_all)
\* can tell when, so the clock moves right before them
Tick ==
    /\ pc \in {"scrape", "save", "agg"}
    /\ now < MaxClock
    /\ now' = now + 1
    /\ UNCHANGED <<db, pc, mode, siteIdx, site, all_listings, i, new_listings,
                   removed_listings, outcome, all_new_listings,
                   all_removed_listings, last_scrape, response, runs, db0,
                   staleRows, lastSaved, siteLog, prevIds, prevCall, run2,
                   message, chunks>>
    /\ UNCHANGED <<parseVars, scraperVars>>

Next ==
    \/ StartScrapeAll
    \/ StartScrapeSite
    \/ ScrapeReturns
    \/ ScrapeRaises
    \/ CheckNew
    \/ Save
    \/ RemoveStale
    \/ ReturnFromScrapeSite
    \/ Aggregate
    \/ HandleScrapeSiteReply
    \/ Tick

Spec == Init /\ [][Next]_vars

(***************************************************************************)
(* Vocabulary of the properties                                            *)
(***************************************************************************)
\* scrape_site has got a pass from the scraper (the extraction did not raise)
Extracted == i > 0
\* the for-loop of scrape_site over all_listings has finished
LoopDone == Extracted /\ i > Len(all_listings)
\* remove_stale_listings has run for the pass
StaleDone == LoopDone /\ pc # "stale"
\* the running scrape_site has returned or raised
SiteEnded == pc \in {"agg", "handled", "site_done"}

StoredIdsOf(rows, site_name) == {r.id : r \in {q \in rows : q.site_name = site_name}}
Triple(l) == <<l.site_name, l.title, l.url>>
\* the Listing a stored row is read back as, compared the way Python compares
\* (the INTEGER column available reads back as 1 or 0, and 1 == True)
AsStored(l) == [l EXCEPT !.available = IF l.available THEN 1 ELSE 0]
Records(rows) == {FromDict(r) : r \in rows}
\* the Listings a Python value holds: those of a list, none for a number
RecordsIn(v) == IF v.type = "list" THEN Range(v.value) ELSE {}

\* the identity part of a Listing: what is hashed, and the id
Identity(l) == [triple |-> Triple(l), id |-> l.id]
\* the identities of every Listing in the program's hands: those built by a
\* scraper and those rebuilt from a stored row
AllIdentities ==
    {Identity(l) : l \in Range(all_listings) \cup Range(new_listings)
                            \cup Range(all_new_listings)}
        \cup {Identity(l) : l \in Records(db) \cup Records(staleRows)}

RECURSIVE FirstOccurrencesNotIn(_, _)
\* the listings of s whose id is not in known, each id at its first occurrence
FirstOccurrencesNotIn(s, known) ==
    IF s = <<>> THEN <<>>
    ELSE IF Head(s).id \in known
         THEN FirstOccurrencesNotIn(Tail(s), known)
         ELSE <<Head(s)>> \o FirstOccurrencesNotIn(Tail(s), known \cup {Head(s).id})

RECURSIVE Concat(_)
Concat(ss) == IF ss = <<>> THEN <<>> ELSE Head(ss) \o Concat(Tail(ss))

(***************************************************************************)
(* C1: with a non-empty set of current ids, remove_stale_listings deletes  *)
(* exactly the rows stored for the site whose id is not a current id: no   *)
(* row with a current id is deleted, no row of the site with another id    *)
(* survives, nothing else is touched, and the count returned is the number *)
(* of rows deleted.                                                        *)
(***************************************************************************)
C1_StaleStep ==
    (pc = "stale" /\ all_listings # <<>> /\ pc' = "ret") =>
        LET current_ids == ListingIds(all_listings) IN
        /\ db' \subseteq db
        /\ db \ db' = {r \in db : r.site_name = site /\ r.id \notin current_ids}
        /\ \A r \in db : r.id \in current_ids => r \in db'
        /\ StoredIdsOf(db', site) \subseteq current_ids
        /\ removed_listings' = PyInt(Cardinality(db \ db'))

C1_StaleRemovalExact == [][C1_StaleStep]_vars

\* a removal that deleted a row of the site and kept another row of the site
C1_Witness ==
    /\ pc = "ret"
    /\ all_listings # <<>>
    /\ staleRows # {}
    /\ StoredIdsOf(db, site) # {}

(***************************************************************************)
(* C2: a pass that succeeds with zero records deletes nothing: the stale   *)
(* computation yields nothing, 0 is returned, and the store is what it was *)
(* when the pass began.                                                    *)
(***************************************************************************)
C2_EmptyPassKeepsStore ==
    (Extracted /\ all_listings = <<>>) =>
        /\ db = db0
        /\ staleRows = {}
        /\ StaleDone => removed_listings = PyInt(0)

\* an empty pass has run its stale removal over a store holding rows of the site
C2_Witness ==
    /\ StaleDone
    /\ all_listings = <<>>
    /\ StoredIdsOf(db, site) # {}

(***************************************************************************)
(* C3: when the loop of scrape_site ends, new_listings holds exactly the   *)
(* listings whose id was not stored when they were processed: the first    *)
(* occurrence of each id the store did not hold when the pass began; no id *)
(* is in it twice, no id stored before the pass is in it, and every id of  *)
(* the pass is stored.                                                     *)
(***************************************************************************)
C3_NewClassification ==
    LoopDone =>
        /\ new_listings = FirstOccurrencesNotIn(all_listings, Ids(db0))
        /\ \A j, k \in 1..Len(new_listings) :
              j # k => new_listings[j].id # new_listings[k].id
        /\ \A k \in 1..Len(new_listings) : new_listings[k].id \notin Ids(db0)
        /\ ListingIds(all_listings) \ Ids(db0) \subseteq ListingIds(new_listings)
        /\ ListingIds(all_listings) \subseteq Ids(db)

\* a pass that shows one never-stored id twice: it is new once
C3_Witness ==
    /\ LoopDone
    /\ Len(all_listings) = 2
    /\ all_listings[1].id = all_listings[2].id
    /\ all_listings[1].id \notin Ids(db0)
    /\ db0 # {}
    /\ Len(new_listings) = 1

(***************************************************************************)
(* C4: scrape_site returns normally whenever the extraction succeeded, and *)
(* its second result holds the Listings, as stored before the deletion, of *)
(* exactly the rows removed as stale in this pass.                         *)
(***************************************************************************)
C4_ReturnsStaleRecords ==
    (SiteEnded /\ Extracted) =>
        /\ outcome = "returned"
        /\ RecordsIn(removed_listings) = Records(staleRows)

(***************************************************************************)
(* C5: scrape_all visits every configured site in order whatever happens   *)
(* to the others and returns; the aggregate of new listings is the         *)
(* concatenation, in site order, of the new lists of the sites whose       *)
(* scrape_site returned, the aggregate of removed listings holds the       *)
(* removed records of those sites, and no listing of a site whose          *)
(* scrape_site raised is in either.                                        *)
(***************************************************************************)
C5_FailureIsolated ==
    LET Returned == {k \in 1..Len(siteLog) : siteLog[k].outcome = "returned"}
        Raised == {siteLog[k].site : k \in (1..Len(siteLog)) \ Returned}
    IN
    /\ mode = "all" =>
          /\ Len(siteLog) <= Len(Sites)
          /\ \A k \in 1..Len(siteLog) : siteLog[k].site = Sites[k]
          /\ all_new_listings = Concat([k \in 1..Len(siteLog) |-> siteLog[k].new])
          /\ Range(all_removed_listings)
                = UNION {Records(siteLog[k].stale) : k \in Returned}
          /\ \A l \in Range(all_new_listings) \cup Range(all_removed_listings) :
                l.site_name \notin Raised
    /\ pc = "all_done" => Len(siteLog) = Len(Sites)

\* scrape_all has returned: the first site's extraction raised, the second
\* site's new listings are in the aggregate
C5_Witness ==
    /\ pc = "all_done"
    /\ siteLog[1].outcome = "raised"
    /\ siteLog[1].ids = None
    /\ siteLog[2].outcome = "returned"
    /\ siteLog[2].new # <<>>
    /\ all_new_listings = siteLog[2].new

(***************************************************************************)
(* C6: two scrape_all runs in a row over the two sites; the second pass of *)
(* the first site lacks one id of its first pass and shows one id its      *)
(* first pass did not, the second site shows the same ids in both runs,    *)
(* and the two sites share no id.  Then the second scrape_all returns      *)
(* exactly the added listing as new and exactly the removed listing as     *)
(* removed, and the store holds exactly the ids of the latest passes.      *)
(***************************************************************************)
C6_Scenario ==
    /\ pc = "all_done"
    /\ Len(prevIds) = Len(Sites)
    /\ \A k \in 1..Len(Sites) : prevIds[k] # None /\ siteLog[k].ids # None
    /\ The(siteLog[2].ids) = The(prevIds[2])
    /\ Cardinality(The(prevIds[1]) \ The(siteLog[1].ids)) = 1
    /\ Cardinality(The(siteLog[1].ids) \ The(prevIds[1])) = 1
    /\ (The(prevIds[1]) \cup The(siteLog[1].ids)) \cap The(siteLog[2].ids) = {}

C6_EndToEnd ==
    C6_Scenario =>
        /\ Len(all_new_listings) = 1
        /\ all_new_listings[1].id \in The(siteLog[1].ids) \ The(prevIds[1])
        /\ Len(all_removed_listings) = 1
        /\ all_removed_listings[1].id \in The(prevIds[1]) \ The(siteLog[1].ids)
        /\ Ids(db) = The(siteLog[1].ids) \cup The(siteLog[2].ids)

(***************************************************************************)
(* C7: once the stale removal of a pass with at least one record has run,  *)
(* the ids stored for the site are exactly the ids observed in the pass.   *)
(***************************************************************************)
C7_StoreEqualsPass ==
    (StaleDone /\ all_listings # <<>>) =>
        StoredIdsOf(db, site) = ListingIds(all_listings)

\* a pass has replaced what was stored for the site: one id gone, one id kept
C7_Witness ==
    /\ StaleDone
    /\ all_listings # <<>>
    /\ staleRows # {}
    /\ ListingIds(all_listings) \cap Ids(db0) # {}

(***************************************************************************)
(* C8: the store holds at most one row per id, and the row of an id reads  *)
(* back as the Listing most recently handed to save_listing for that id,   *)
(* in every field of the Listing; saving a Listing the store already holds *)
(* unchanged leaves every stored Listing as it was.  (The column           *)
(* created_at, which no Listing carries, is stamped anew by every save.)   *)
(***************************************************************************)
C8_StoreState ==
    /\ \A r1, r2 \in db : r1.id = r2.id => r1 = r2
    /\ Records(db) = {AsStored(l) : l \in lastSaved}
    /\ \A l1, l2 \in lastSaved : l1.id = l2.id => l1 = l2

C8_SaveStep ==
    (pc = "save" /\ pc' # "save") =>
        /\ AsStored(all_listings[i]) \in Records(db')
        /\ \A r \in db : r.id # all_listings[i].id => r \in db'
        /\ Cardinality(Ids(db')) = Cardinality(Ids(db \cup db'))
        /\ AsStored(all_listings[i]) \in Records(db) => Records(db') = Records(db)

C9_IdFromTriple ==
    \A k1, k2 \in AllIdentities : k1.triple = k2.triple => k1.id = k2.id

\* a Listing rebuilt from a row and a scraped one: same triple, other price,
\* other availability, other observation time
C9_Witness ==
    \E l1 \in Records(db) : \E l2 \in Range(all_listings) :
        /\ Triple(l1) = Triple(l2)
        /\ l1.price # l2.price
        /\ l1.move_in_date # l2.move_in_date
        /\ l1.scraped_at # l2.scraped_at
        /\ l1.id = l2.id

(***************************************************************************)
(* C10: any two Listings that differ in site_name, title or url have       *)
(* different ids (the digest taken as collision-free).                     *)
(***************************************************************************)
C10_DistinctTriplesDistinctIds ==
    \A k1, k2 \in AllIdentities : k1.triple # k2.triple => k1.id # k2.id

(***************************************************************************)
(* C15: the store operations of scrape_site for one site (save_listing,    *)
(* remove_stale_listings) never insert, overwrite or delete a row whose    *)
(* site_name is another site's name: every row of another site is still    *)
(* there after the step, and every row the step adds carries the name of   *)
(* the site being scraped.                                                 *)
(***************************************************************************)
C15_StoreStep ==
    (pc \in {"save", "stale"}) =>
        /\ \A r \in db : r.site_name # site => r \in db'
        /\ \A r \in db' \ db : r.site_name = site

C15_OtherSitesUntouched == [][C15_StoreStep]_vars

(***************************************************************************)
(* Text, and the regular expressions of Python's re module                 *)
(***************************************************************************)
Digit == {"0", "1", "2", "3", "4", "5", "6", "7", "8", "9"}
LowerSeq == <<"a", "b", "c", "d", "e", "f", "g", "h", "i", "j", "k", "l", "m",
              "n", "o", "p", "q", "r", "s", "t", "u", "v", "w", "x", "y", "z">>
UpperSeq == <<"A", "B", "C", "D", "E", "F", "G", "H", "I", "J", "K", "L", "M",
              "N", "O", "P", "Q", "R", "S", "T", "U", "V", "W", "X", "Y", "Z">>
\* \w, \s
Word == Range(LowerSeq) \cup Range(UpperSeq) \cup Digit \cup {"_"}
Space == {" ", "\n"}

\* str.lower()
LowerChar(c) ==
    IF \E k \in 1..Len(UpperSeq) : UpperSeq[k] = c
    THEN LowerSeq[CHOOSE k \in 1..Len(UpperSeq) : UpperSeq[k] = c]
    ELSE c
Lower(text) == [k \in 1..Len(text) |-> LowerChar(text[k])]

\* text.startswith(prefix), needle in text
StartsWith(text, prefix) ==
    Len(prefix) <= Len(text) /\ SubSeq(text, 1, Len(prefix)) = prefix
Contains(text, needle) ==
    \E k \in 1..(Len(text) - Len(needle) + 1) :
        SubSeq(text, k, k + Len(needle) - 1) = needle

\* str.strip() / get_text(strip=True)
RECURSIVE LStrip(_)
LStrip(text) ==
    IF text # <<>> /\ Head(text) \in Space THEN LStrip(Tail(text)) ELSE text
RECURSIVE RStrip(_)
RStrip(text) ==
    IF text # <<>> /\ text[Len(text)] \in Space
    THEN RStrip(SubSeq(text, 1, Len(text) - 1)) ELSE text
Strip(text) == RStrip(LStrip(text))

\* syntax trees of regular expressions
Set(S) == [op |-> "set", set |-> S]
Cat(args) == [op |-> "cat", args |-> args]
Alt(args) == [op |-> "alt", args |-> args]
Rep(arg, min, max) == [op |-> "rep", arg |-> arg, min |-> min, max |-> max]
Group(n, arg) == [op |-> "grp", n |-> n, arg |-> arg]
EndOfText == [op |-> "eot"]
Lit(s) == [op |-> "lit", s |-> s]
Opt(arg) == Rep(arg, 0, Some(1))
Star(arg) == Rep(arg, 0, None)
Plus(arg) == Rep(arg, 1, None)

\* the state of a match: the next position and the groups captured so far
MatchState(p, g) == [pos |-> p, caps |-> g]

RECURSIVE SetGroup(_, _, _)
SetGroup(ms, n, p) ==
    IF ms = <<>> THEN <<>>
    ELSE <<MatchState(Head(ms).pos,
                      [Head(ms).caps EXCEPT ![n] = <<p, Head(ms).pos - 1>>])>>
             \o SetGroup(Tail(ms), n, p)

RECURSIVE Match(_, _, _, _)
RECURSIVE MatchEach(_, _, _)
RECURSIVE MatchCat(_, _, _)
RECURSIVE MatchAlt(_, _, _, _)
RECURSIVE MatchRep(_, _, _, _, _)
RECURSIVE MatchRepEach(_, _, _, _)

\* the ways re matches text t from position p, in the order in which the
\* backtracking matcher tries them (greedy repetition, alternatives from
\* left to right)
Match(re, t, p, g) ==
    CASE re.op = "set" ->
             IF p <= Len(t) /\ t[p] \in re.set
             THEN <<MatchState(p + 1, g)>> ELSE <<>>
      [] re.op = "lit" ->
             IF p + Len(re.s) - 1 <= Len(t) /\ SubSeq(t, p, p + Len(re.s) - 1) = re.s
             THEN <<MatchState(p + Len(re.s), g)>> ELSE <<>>
      [] re.op = "eot" ->
             IF p = Len(t) + 1 THEN <<MatchState(p, g)>> ELSE <<>>
      [] re.op = "cat" -> MatchCat(re.args, t, <<MatchState(p, g)>>)
      [] re.op = "alt" -> MatchAlt(re.args, t, p, g)
      [] re.op = "rep" -> MatchRep(re, 0, t, p, g)
      [] re.op = "grp" -> SetGroup(Match(re.arg, t, p, g), re.n, p)

MatchEach(re, t, starts) ==
    IF starts = <<>> THEN <<>>
    ELSE Match(re, t, Head(starts).pos, Head(starts).caps)
             \o MatchEach(re, t, Tail(starts))

MatchCat(args, t, starts) ==
    IF args = <<>> THEN starts
    ELSE MatchCat(Tail(args), t, MatchEach(Head(args), t, starts))

MatchAlt(args, t, p, g) ==
    IF args = <<>> THEN <<>>
    ELSE Match(Head(args), t, p, g) \o MatchAlt(Tail(args), t, p, g)

MatchRep(re, n, t, p, g) ==
    LET more == IF re.max = None \/ n < The(re.max)
                THEN Match(re.arg, t, p, g) ELSE <<>>
        stop == IF n >= re.min THEN <<MatchState(p, g)>> ELSE <<>>
    IN  MatchRepEach(re, n + 1, t, more) \o stop

MatchRepEach(re, n, t, starts) ==
    IF starts = <<>> THEN <<>>
    ELSE MatchRep(re, n, t, Head(starts).pos, Head(starts).caps)
             \o MatchRepEach(re, n, t, Tail(starts))

NoGroups == <<None, None, None>>

RECURSIVE SearchFrom(_, _, _)
SearchFrom(re, t, p) ==
    IF p > Len(t) + 1 THEN None
    ELSE LET ms == Match(re, t, p, NoGroups) IN
         IF ms # <<>>
         THEN Some([start |-> p, end |-> Head(ms).pos - 1, caps |-> Head(ms).caps])
         ELSE SearchFrom(re, t, p + 1)

\* re.search(re, t): the leftmost match, None when there is none
ReSearch(re, t) == SearchFrom(re, t, 1)
\* match.group() and match.group(n) of a match m in text t
Group0(m, t) == SubSeq(t, m.start, m.end)
GroupN(m, t, n) == SubSeq(t, m.caps[n][1], m.caps[n][2])

(***************************************************************************)
(* Python values: the outcome of a call, float(), int(), datetime.date     *)
(***************************************************************************)
\* a call returns a value (None or Some(v)) or raises an exception
Returned(v) == [exc |-> None, ret |-> v]
Raised(e) == [exc |-> Some(e), ret |-> None]

DigitSeq == <<"0", "1", "2", "3", "4", "5", "6", "7", "8", "9">>
DigitValue(c) == (CHOOSE k \in 1..Len(DigitSeq) : DigitSeq[k] = c) - 1

RECURSIVE DigitsValue(_)
DigitsValue(s) ==
    IF s = <<>> THEN 0
    ELSE DigitsValue(SubSeq(s, 1, Len(s) - 1)) * 10 + DigitValue(s[Len(s)])

IsDigit(c) == c \in Digit
IsDot(c) == c = "."
HasSign(s) == s # <<>> /\ Head(s) \in {"-", "+"}
Unsigned(s) == IF HasSign(s) THEN Tail(s) ELSE s
Signed(s, n) == IF s # <<>> /\ Head(s) = "-" THEN 0 - n ELSE n

\* a float: num / 10^scale, without trailing zeros in the fraction
RECURSIVE Float(_, _)
Float(num, scale) ==
    IF scale > 0 /\ num % 10 = 0 THEN Float(num \div 10, scale - 1)
    ELSE [num |-> num, scale |-> scale]

\* float(s) for a decimal literal: an optional sign, digits with at most
\* one point and at least one digit; anything else is a ValueError
PyFloat(s) ==
    LET u == Unsigned(s)
        dots == SelectSeq(u, IsDot)
        digits == SelectSeq(u, IsDigit)
        point == CHOOSE k \in 1..Len(u) : u[k] = "."
    IN  IF Len(dots) + Len(digits) = Len(u) /\ Len(dots) <= 1 /\ digits # <<>>
        THEN Returned(Some(Float(Signed(s, DigitsValue(digits)),
                                 IF dots = <<>> THEN 0 ELSE Len(u) - point)))
        ELSE Raised("ValueError")

\* int(s) for a decimal literal: an optional sign and at least one digit
PyInt10(s) ==
    LET u == Unsigned(s) IN
    IF u # <<>> /\ SelectSeq(u, IsDigit) = u
    THEN Returned(Some(Signed(s, DigitsValue(u))))
    ELSE Raised("ValueError")

IsLeap(year) == (year % 4 = 0 /\ year % 100 # 0) \/ year % 400 = 0
DaysInMonth(year, month) ==
    IF month = 2 THEN (IF IsLeap(year) THEN 29 ELSE 28)
    ELSE IF month \in {4, 6, 9, 11} THEN 30 ELSE 31

\* date(year, month, day): ValueError outside the calendar
PyDate(year, month, day) ==
    IF year \in 1..9999 /\ month \in 1..12 /\ day \in 1..DaysInMonth(year, month)
    THEN Returned(Some([year |-> year, month |-> month, day |-> day]))
    ELSE Raised("ValueError")

\* try: ... except ValueError: alt
ExceptValueError(outcome_, alt) ==
    IF outcome_.exc = Some("ValueError") THEN alt ELSE outcome_

(***************************************************************************)
(* Field parsers (src/scrapers/base.py, static_scraper.py,                 *)
(* playwright_scraper.py)                                                  *)
(***************************************************************************)
\* re.sub(r"[^\d.]", "", text)
IsDigitOrDot(c) == c \in Digit \cup {"."}
\* mutant: the minus sign is kept as well
IsDigitDotOrMinus(c) == c \in Digit \cup {".", "-"}
CleanPrice_KeepsMinus(text) == SelectSeq(text, IsDigitDotOrMinus)
CleanPrice(text) == SelectSeq(text, IsDigitOrDot)

ParsePrice(text) ==
    LET cleaned == CleanPrice(text) IN
    ExceptValueError(IF cleaned # <<>> THEN PyFloat(cleaned) ELSE Returned(None),
                     Returned(None))

\* r"\d+"
IntRe == Plus(Set(Digit))
ParseInt(text) ==
    LET match == ReSearch(IntRe, text) IN
    IF match # None THEN PyInt10(Group0(The(match), text)) ELSE Returned(None)

\* r"[\d.]+"
FloatRe == Plus(Set(Digit \cup {"."}))
ParseFloat(text) ==
    LET match == ReSearch(FloatRe, text) IN
    ExceptValueError(IF match # None THEN PyFloat(Group0(The(match), text))
                     ELSE Returned(None),
                     Returned(None))

\* r"(\d+)\s*(?:bed|br|bedroom)"
BedsRe ==
    Cat(<<Group(1, Plus(Set(Digit))), Star(Set(Space)),
          Alt(<<Lit(<<"b", "e", "d">>), Lit(<<"b", "r">>),
                Lit(<<"b", "e", "d", "r", "o", "o", "m">>)>>)>>)
\* r"([\d.]+)\s*(?:bath|ba|bathroom)"
BathsRe ==
    Cat(<<Group(1, Plus(Set(Digit \cup {"."}))), Star(Set(Space)),
          Alt(<<Lit(<<"b", "a", "t", "h">>), Lit(<<"b", "a">>),
                Lit(<<"b", "a", "t", "h", "r", "o", "o", "m">>)>>)>>)
\* r"([\d,]+)\s*(?:sq\.?\s*ft\.?|sqft|sf)"
SqftRe ==
    Cat(<<Group(1, Plus(Set(Digit \cup {","}))), Star(Set(Space)),
          Alt(<<Cat(<<Lit(<<"s", "q">>), Opt(Set({"."})), Star(Set(Space)),
                      Lit(<<"f", "t">>), Opt(Set({"."}))>>),
                Lit(<<"s", "q", "f", "t">>), Lit(<<"s", "f">>)>>)>>)

\* .replace(",", "")
IsNotComma(c) == c # ","
RemoveCommas(s) == SelectSeq(s, IsNotComma)

\* _parse_combined_details: the three conversions run in order, none of
\* them inside a try, so the first ValueError leaves the function
ParseCombinedDetails(text) ==
    LET text_lower == Lower(text)
        beds_match == ReSearch(BedsRe, text_lower)
        bedrooms == IF beds_match # None
                    THEN PyInt10(GroupN(The(beds_match), text_lower, 1))
                    ELSE Returned(None)
        baths_match == ReSearch(BathsRe, text_lower)
        bathrooms == IF baths_match # None
                     THEN PyFloat(GroupN(The(baths_match), text_lower, 1))
                     ELSE Returned(None)
        sqft_match == ReSearch(SqftRe, text_lower)
        sqft == IF sqft_match # None
                THEN PyInt10(RemoveCommas(GroupN(The(sqft_match), text_lower, 1)))
                ELSE Returned(None)
    IN  IF bedrooms.exc # None THEN bedrooms
        ELSE IF bathrooms.exc # None THEN bathrooms
        ELSE IF sqft.exc # None THEN sqft
        ELSE Returned(Some([bedrooms |-> bedrooms.ret, bathrooms |-> bathrooms.ret,
                            sqft |-> sqft.ret]))

\* month_names, in the order of the dict
MonthNames ==
    <<<<<<"j", "a", "n">>, 1>>,
      <<<<"j", "a", "n", "u", "a", "r", "y">>, 1>>,
      <<<<"f", "e", "b">>, 2>>,
      <<<<"f", "e", "b", "r", "u", "a", "r", "y">>, 2>>,
      <<<<"m", "a", "r">>, 3>>,
      <<<<"m", "a", "r", "c", "h">>, 3>>,
      <<<<"a", "p", "r">>, 4>>,
      <<<<"a", "p", "r", "i", "l">>, 4>>,
      <<<<"m", "a", "y">>, 5>>,
      <<<<"j", "u", "n">>, 6>>,
      <<<<"j", "u", "n", "e">>, 6>>,
      <<<<"j", "u", "l">>, 7>>,
      <<<<"j", "u", "l", "y">>, 7>>,
      <<<<"a", "u", "g">>, 8>>,
      <<<<"a", "u", "g", "u", "s", "t">>, 8>>,
      <<<<"s", "e", "p">>, 9>>,
      <<<<"s", "e", "p", "t", "e", "m", "b", "e", "r">>, 9>>,
      <<<<"o", "c", "t">>, 10>>,
      <<<<"o", "c", "t", "o", "b", "e", "r">>, 10>>,
      <<<<"n", "o", "v">>, 11>>,
      <<<<"n", "o", "v", "e", "m", "b", "e", "r">>, 11>>,
      <<<<"d", "e", "c">>, 12>>,
      <<<<"d", "e", "c", "e", "m", "b", "e", "r">>, 12>>>>
\* month_names.get(key)
MonthNamesGet(key) ==
    IF \E k \in 1..Len(MonthNames) : MonthNames[k][1] = key
    THEN Some(MonthNames[CHOOSE k \in 1..Len(MonthNames) : MonthNames[k][1] = key][2])
    ELSE None
\* "|".join(month_names.keys())
MonthPattern == Alt([k \in 1..Len(MonthNames) |-> Lit(MonthNames[k][1])])

\* r"(\d{1,2})[/\-](\d{1,2})[/\-](\d{2,4})"
NumericDateRe ==
    Cat(<<Group(1, Rep(Set(Digit), 1, Some(2))), Set({"/", "-"}),
          Group(2, Rep(Set(Digit), 1, Some(2))), Set({"/", "-"}),
          Group(3, Rep(Set(Digit), 2, Some(4)))>>)
\* rf"({month_pattern})\w*\.?\s+(\d{{1,2}})\w*,?\s*(\d{{4}})"
LongDateRe ==
    Cat(<<Group(1, MonthPattern), Star(Set(Word)), Opt(Set({"."})),
          Plus(Set(Space)), Group(2, Rep(Set(Digit), 1, Some(2))),
          Star(Set(Word)), Opt(Set({","})), Star(Set(Space)),
          Group(3, Rep(Set(Digit), 4, Some(4)))>>)
\* rf"({month_pattern})\w*\.?\s+(\d{{1,2}})(?:st|nd|rd|th)?(?:\s|$|,)"
ShortDateRe ==
    Cat(<<Group(1, MonthPattern), Star(Set(Word)), Opt(Set({"."})),
          Plus(Set(Space)), Group(2, Rep(Set(Digit), 1, Some(2))),
          Opt(Alt(<<Lit(<<"s", "t">>), Lit(<<"n", "d">>), Lit(<<"r", "d">>), Lit(<<"t", "h">>)>>)),
          Alt(<<Set(Space), EndOfText, Set({","})>>)>>)

\* the date part of a named-month match: month_names.get(group(1)[:3]),
\* then date(year, month, day) inside try / except ValueError: pass
NamedDate(m, t, year) ==
    LET g1 == GroupN(m, t, 1)
        month == MonthNamesGet(SubSeq(g1, 1, IF Len(g1) < 3 THEN Len(g1) ELSE 3))
        day == The(PyInt10(GroupN(m, t, 2)).ret)
    IN  IF month # None THEN ExceptValueError(PyDate(year, The(month), day), Returned(None))
        ELSE Returned(None)

\* the "now" / "today" test of _parse_move_in_date
SaysNow(text_lower) ==
    Contains(text_lower, <<"n", "o", "w">>) \/ Contains(text_lower, <<"t", "o", "d", "a", "y">>)

\* the numeric-date block of _parse_move_in_date: the date of the match,
\* None without a match or when date() raises ValueError
NumericDate(text) ==
    LET date_match == ReSearch(NumericDateRe, text) IN
    IF date_match # None
    THEN LET month == The(PyInt10(GroupN(The(date_match), text, 1)).ret)
             day == The(PyInt10(GroupN(The(date_match), text, 2)).ret)
             year == The(PyInt10(GroupN(The(date_match), text, 3)).ret)
         IN  ExceptValueError(
                 PyDate(IF year < 100 THEN year + 2000 ELSE year, month, day),
                 Returned(None))
    ELSE Returned(None)

\* the block for a month name, a day and a four-digit year
LongDate(text_lower) ==
    LET text_match == ReSearch(LongDateRe, text_lower) IN
    IF text_match # None
    THEN NamedDate(The(text_match), text_lower,
                   The(PyInt10(GroupN(The(text_match), text_lower, 3)).ret))
    ELSE Returned(None)

\* the block for a month name and a day, in the current year
ShortDate(text_lower, today) ==
    LET text_match == ReSearch(ShortDateRe, text_lower) IN
    IF text_match # None
    THEN NamedDate(The(text_match), text_lower, today.year)
    ELSE Returned(None)

\* mutant: a numeric match that is no calendar date ends the search
ParseMoveInDate_NoFallThrough(text, today) ==
    LET text_lower == Lower(text) IN
    IF SaysNow(text_lower) THEN Returned(Some(today))
    ELSE IF ReSearch(NumericDateRe, text) # None THEN NumericDate(text)
    ELSE IF LongDate(text_lower) # Returned(None) THEN LongDate(text_lower)
    ELSE ShortDate(text_lower, today)
\* _parse_move_in_date; today is date.today()
ParseMoveInDate(text, today) ==
    LET text_lower == Lower(text) IN
    IF SaysNow(text_lower) THEN Returned(Some(today))
    ELSE IF NumericDate(text) # Returned(None) THEN NumericDate(text)
    ELSE IF LongDate(text_lower) # Returned(None) THEN LongDate(text_lower)
    ELSE ShortDate(text_lower, today)

(***************************************************************************)
(* Per-candidate extraction (_parse_listing of both scrapers)              *)
(***************************************************************************)
MaxPieces == 2      \* most pieces a text of a candidate element is made of

\* the texts made of at most n of the given pieces
PieceTexts(pieces, n) == {Concat(ps) : ps \in SeqsUpTo(pieces, n)}

\* what the number fields, the availability field and the link of a
\* candidate can read
NumPieces ==
    {<<"1">>, <<".", "5">>, <<".">>, <<",">>, <<" ">>, <<"-">>, <<"B", "e", "d">>, <<"b", "a">>, <<"s", "f">>}
DatePieces ==
    {<<"N", "o", "w">>, <<"J", "a", "n", " ">>, <<"F", "e", "b", " ">>, <<"2">>, <<"3", "0">>, <<"2", "/", "2", "/">>, <<"2", "/", "3", "0", "/">>, <<"1", "3", "/", "2", "/", "2", "5", " ", "J", "a", "n", " ">>, <<"2", "5">>, <<"2", "0", "2", "5">>, <<"t", "h">>}
        \cup {<<"2", ",", " ", "2", "0", "2", "5">>, <<"U", "n", "a", "v", "a", "i", "l", "a", "b", "l", "e", " ">>}
HrefPieces == {<<"/">>, <<"p">>, <<"s", ":">>, <<"/", "/", "h">>}
NumTexts == PieceTexts(NumPieces, MaxPieces)
DateTexts == PieceTexts(DatePieces, MaxPieces)
Hrefs == PieceTexts(HrefPieces, MaxPieces)
TitleTexts == {<<>>, <<" ">>, <<"x">>, <<" ", "x">>}

\* the site_config of the scraper: settings.sites[0] with a page url
BaseUrl == <<"s", ":", "/", "/", "h", "/", "d", "/", "i">>
ParseConfig == [name |-> SiteA, url |-> BaseUrl]

\* a candidate element: for each selector the text of the element it
\* finds (the href attribute for the link), None when it finds none
NoElements ==
    [title |-> None, href |-> None, price |-> None, details |-> None,
     bedrooms |-> None, bathrooms |-> None, sqft |-> None,
     availability |-> None]
Titled == [NoElements EXCEPT !.title = Some(<<"x">>)]

Containers ==
    {[NoElements EXCEPT !.title = t, !.href = h] :
         t \in {None} \cup {Some(x) : x \in TitleTexts},
         h \in {None} \cup {Some(x) : x \in Hrefs}}
    \cup {[Titled EXCEPT !.price = Some(t)] : t \in NumTexts}
    \cup {[Titled EXCEPT !.details = Some(t)] : t \in NumTexts}
    \cup {[Titled EXCEPT !.bedrooms = Some(t), !.bathrooms = Some(t),
                         !.sqft = Some(t)] : t \in NumTexts}
    \cup {[Titled EXCEPT !.details = Some(t), !.bedrooms = Some(<<"2">>),
                         !.bathrooms = Some(<<"2">>), !.sqft = Some(<<"2">>)] :
              t \in NumTexts}
    \cup {[Titled EXCEPT !.availability = Some(t)] : t \in DateTexts}

\* urllib.parse: the scheme and the network location of an absolute url
Scheme(url) == SubSeq(url, 1, (CHOOSE k \in 1..Len(url) : url[k] = ":") - 1)
AfterScheme(url) == SubSeq(url, Len(Scheme(url)) + 4, Len(url))
RECURSIVE UpToSlash(_)
UpToSlash(s) ==
    IF s = <<>> \/ Head(s) = "/" THEN <<>> ELSE <<Head(s)>> \o UpToSlash(Tail(s))
Netloc(url) == UpToSlash(AfterScheme(url))

\* urljoin(base, url) for a url that starts with "/": a network-path
\* reference ("//host/path") takes the scheme of the base, an absolute
\* path takes its scheme and network location
UrlJoin(base, url) ==
    IF StartsWith(url, <<"/", "/">>)
    THEN Scheme(base) \o <<":">> \o url
    ELSE Scheme(base) \o <<":", "/", "/">> \o Netloc(base) \o url

\* date.today() and datetime.now() at a value of the clock
FirstYear == 2026
Today(clock) == [year |-> FirstYear + clock, month |-> 1, day |-> 1]

\* "unavailable" not in t and "not available" not in t
Available(avail_lower) ==
    /\ ~Contains(avail_lower, <<"u", "n", "a", "v", "a", "i", "l", "a", "b", "l", "e">>)
    /\ ~Contains(avail_lower, <<"n", "o", "t", " ", "a", "v", "a", "i", "l", "a", "b", "l", "e">>)

\* the first exception among outcomes evaluated in order, None if none
RECURSIVE FirstRaised(_)
FirstRaised(outcomes) ==
    IF outcomes = <<>> THEN None
    ELSE IF Head(outcomes).exc # None THEN Head(outcomes).exc
    ELSE FirstRaised(Tail(outcomes))

\* the Listing built from the parsed fields, or the first exception
EmitListing(config, title, url, price, bedrooms, bathrooms, sqft, available, move_in_date, clock) ==
    LET raised == FirstRaised(<<price, bedrooms, bathrooms, sqft, move_in_date>>) IN
    IF raised # None THEN Raised(The(raised))
    ELSE Returned(Some(Listing(config.name, title, url,
                               [price |-> price.ret, bedrooms |-> bedrooms.ret,
                                bathrooms |-> bathrooms.ret, sqft |-> sqft.ret,
                                available |-> available,
                                move_in_date |-> move_in_date.ret],
                               clock, <<>>)))

\* elem.get_text(strip=True) if elem else None
GetTextStrip(elem) == IF elem # None THEN Some(Strip(The(elem))) ELSE None

\* the url of a Static record
StaticUrl(config, c) ==
    IF c.href # None /\ The(c.href) # <<>>
    THEN IF StartsWith(The(c.href), <<"/">>)
         THEN UrlJoin(config.url, The(c.href)) ELSE The(c.href)
    ELSE config.url

\* StaticScraper._parse_listing
StaticParseListing(config, c, clock) ==
    LET title == GetTextStrip(c.title)
        Field(elem, Parser(_)) ==
            IF elem # None THEN Parser(Strip(The(elem))) ELSE Returned(None)
    IN  IF title = None \/ The(title) = <<>> THEN Returned(None)
        ELSE EmitListing(config, The(title), StaticUrl(config, c),
                 Field(c.price, ParsePrice), Field(c.bedrooms, ParseInt),
                 Field(c.bathrooms, ParseFloat), Field(c.sqft, ParseInt),
                 IF c.availability # None
                 THEN Available(Lower(Strip(The(c.availability)))) ELSE TRUE,
                 Returned(None), clock)

\* PlaywrightScraper._get_text: the stripped text, None without an element
GetText(elem) == IF elem # None THEN Some(Strip(The(elem))) ELSE None

\* the url of an Interactive record
PlaywrightUrl(config, c) ==
    LET url == c.href
        joined == IF url # None /\ The(url) # <<>> /\ StartsWith(The(url), <<"/">>)
                  THEN Some(UrlJoin(config.url, The(url))) ELSE url
    IN  IF joined # None /\ The(joined) # <<>> THEN The(joined) ELSE config.url

\* PlaywrightScraper._parse_listing
PlaywrightParseListing(config, c, clock) ==
    LET title == GetText(c.title)
        Truthy(text) == text # None /\ The(text) # <<>>
        Field(elem, Parser(_)) ==
            IF Truthy(GetText(elem)) THEN Parser(The(GetText(elem)))
            ELSE Returned(None)
        details_text == GetText(c.details)
        details == IF Truthy(details_text)
                   THEN ParseCombinedDetails(The(details_text))
                   ELSE Returned(None)
        Detail(combined, single) ==
            IF Truthy(details_text)
            THEN (IF details.exc # None THEN details ELSE Returned(combined))
            ELSE single
        avail_text == GetText(c.availability)
    IN  IF ~Truthy(title) THEN Returned(None)
        ELSE EmitListing(config, The(title), PlaywrightUrl(config, c),
                 Field(c.price, ParsePrice),
                 Detail(The(details.ret).bedrooms, Field(c.bedrooms, ParseInt)),
                 Detail(The(details.ret).bathrooms, Field(c.bathrooms, ParseFloat)),
                 Detail(The(details.ret).sqft, Field(c.sqft, ParseInt)),
                 IF Truthy(avail_text) THEN Available(Lower(The(avail_text)))
                 ELSE TRUE,
                 IF Truthy(avail_text)
                 THEN ParseMoveInDate(The(avail_text), Today(clock))
                 ELSE Returned(None),
                 clock)

(***************************************************************************)
(* Specification of the field-parsing steps: one candidate element is      *)
(* handed to _parse_listing of either scraper, or a text of it to the      *)
(* field parsers                                                           *)
(***************************************************************************)
InitParse ==
    /\ OrchInit
    /\ NoMessage
    /\ container \in {Some(c) : c \in Containers}
    /\ now \in IF The(container).availability # None THEN 0..MaxClock ELSE {0}
    /\ emitted = None
    /\ parsed = None
    /\ settings = DefaultSettings
    /\ ScraperInit

\* the texts the given selectors of a candidate find
FieldTexts(c, fields) == {The(c[f]) : f \in {f \in fields : c[f] # None}}
NumberFields == {"price", "details", "bedrooms", "bathrooms", "sqft"}

\* StaticScraper.scrape, one iteration: self._parse_listing(container)
StaticParse ==
    /\ container # None /\ emitted = None /\ parsed = None
    /\ emitted' = Some([variant |-> "static",
                        outcome |-> StaticParseListing(ParseConfig, The(container), now)])
    /\ UNCHANGED <<orchVars, now, container, parsed, scraperVars>>

\* PlaywrightScraper._extract_listings, one iteration
PlaywrightParse ==
    /\ container # None /\ emitted = None /\ parsed = None
    /\ emitted' = Some([variant |-> "playwright",
                        outcome |-> PlaywrightParseListing(ParseConfig, The(container), now)])
    /\ UNCHANGED <<orchVars, now, container, parsed, scraperVars>>

\* the number parsers applied to a text of a number field of the candidate
ApplyNumberParsers ==
    /\ container # None /\ emitted = None /\ parsed = None
    /\ \E text \in FieldTexts(The(container), NumberFields) :
          parsed' = Some([text |-> text,
                          price |-> ParsePrice(text),
                          int |-> ParseInt(text),
                          float |-> ParseFloat(text),
                          combined_details |-> ParseCombinedDetails(text)])
    /\ UNCHANGED <<orchVars, now, container, emitted, scraperVars>>

\* the date parser applied to the availability text of the candidate
ApplyDateParser ==
    /\ container # None /\ emitted = None /\ parsed = None
    /\ \E text \in FieldTexts(The(container), {"availability"}) :
          parsed' = Some([text |-> text,
                          move_in_date |-> ParseMoveInDate(text, Today(now))])
    /\ UNCHANGED <<orchVars, now, container, emitted, scraperVars>>

\* scrape_site: await self.db.save_listing(listing) for the emitted Listing
SaveEmitted ==
    /\ emitted # None /\ db = {}
    /\ The(emitted).outcome.exc = None
    /\ The(emitted).outcome.ret # None
    /\ db' = SaveListing(db, The(The(emitted).outcome.ret), now)
    /\ UNCHANGED <<pc, mode, siteIdx, site, all_listings, i, new_listings,
                   removed_listings, outcome, all_new_listings,
                   all_removed_listings, last_scrape, response, runs, db0,
                   staleRows, lastSaved, siteLog, prevIds, prevCall, run2,
                   message, chunks>>
    /\ UNCHANGED <<now, parseVars, scraperVars>>

NextParse ==
    \/ SaveEmitted
    \/ StaticParse
    \/ PlaywrightParse
    \/ ApplyNumberParsers
    \/ ApplyDateParser

SpecParse == InitParse /\ [][NextParse]_vars

(***************************************************************************)
(* Vocabulary of the field-parsing properties                              *)
(***************************************************************************)
\* _parse_listing has run and emitted a Listing
EmittedListing ==
    emitted # None /\ The(emitted).outcome.exc = None
                   /\ The(emitted).outcome.ret # None
TheListing == The(The(emitted).outcome.ret)
\* the candidate has a title that is not empty once stripped
HasTitle(c) == c.title # None /\ Strip(The(c.title)) # <<>>

\* a url with a scheme: a letter, then letters, digits, "+", "-", ".", then ":"
IsAbsoluteUrl(url) ==
    \E k \in 2..Len(url) :
        /\ url[k] = ":"
        /\ url[1] \in Range(LowerSeq) \cup Range(UpperSeq)
        /\ \A j \in 1..(k - 1) : url[j] \in (Word \ {"_"}) \cup {"+", "-", "."}
\* scheme://netloc of an absolute url
Origin(url) == Scheme(url) \o <<":", "/", "/">> \o Netloc(url)

NonNegativeInt(opt) == opt = None \/ The(opt) >= 0
NonNegativeFloat(opt) == opt = None \/ The(opt).num >= 0
NonNegativeFields(r) ==
    /\ NonNegativeFloat(r.price) /\ NonNegativeInt(r.bedrooms)
    /\ NonNegativeFloat(r.bathrooms) /\ NonNegativeInt(r.sqft)

(***************************************************************************)
(* C16: _parse_listing of either scraper discards a candidate exactly when *)
(* its title is missing or empty; for a candidate with a title it emits a  *)
(* Listing whatever the field texts are, and it never raises.              *)
(***************************************************************************)
C16_DiscardsOnlyUntitled ==
    emitted # None =>
        /\ The(emitted).outcome.exc = None
        /\ The(emitted).outcome.ret = None <=> ~HasTitle(The(container))

(***************************************************************************)
(* C17: every field parser (_parse_price, _parse_int, _parse_float,        *)
(* _parse_move_in_date, _parse_combined_details) returns a value or None   *)
(* for every text and never raises.                                        *)
(***************************************************************************)
C17_ParsersNeverRaise ==
    parsed # None =>
        \A f \in DOMAIN The(parsed) \ {"text"} : The(parsed)[f].exc = None

(***************************************************************************)
(* C19: price, bedrooms, bathrooms and sqft are each absent or             *)
(* non-negative in every value the number parsers return, in every Listing *)
(* either scraper emits and in every stored row, whatever the text was.    *)
(***************************************************************************)
C19_NonNegative ==
    /\ EmittedListing => NonNegativeFields(TheListing)
    /\ \A r \in db : NonNegativeFields(r)
    /\ (parsed # None /\ "price" \in DOMAIN The(parsed)) =>
          /\ NonNegativeFloat(The(parsed).price.ret)
          /\ NonNegativeInt(The(parsed).int.ret)
          /\ NonNegativeFloat(The(parsed).float.ret)
          /\ The(parsed).combined_details.exc = None =>
                 LET details == The(The(parsed).combined_details.ret) IN
                 /\ NonNegativeInt(details.bedrooms)
                 /\ NonNegativeFloat(details.bathrooms)
                 /\ NonNegativeInt(details.sqft)

\* a price text with a minus sign gave a stored row with a price
C19_Witness ==
    \E r \in db :
        /\ r.price # None
        /\ Contains(The(The(container).price), <<"-">>)

(***************************************************************************)
(* C20: the url of an emitted Listing is the link target when that is      *)
(* absolute, the link target resolved against the site's url when it is    *)
(* relative in any form, and the site's url when there is no link target.  *)
(***************************************************************************)
C20_UrlResolved ==
    EmittedListing =>
        LET href == The(container).href
            url == TheListing.url
        IN  IF href = None \/ The(href) = <<>> THEN url = ParseConfig.url
            ELSE IF IsAbsoluteUrl(The(href)) THEN url = The(href)
            ELSE IF StartsWith(The(href), <<"/">>)
                 THEN url = UrlJoin(ParseConfig.url, The(href))
                 ELSE StartsWith(url, Origin(ParseConfig.url))

\* the selector finds an element whose text is not empty once stripped
Yields(elem) == elem # None /\ Strip(The(elem)) # <<>>
YieldedText(elem) == Strip(The(elem))

(***************************************************************************)
(* C21: in a Listing emitted by either scraper, bedrooms, bathrooms and    *)
(* sqft are those of _parse_combined_details of the details text when the  *)
(* details selector yields text, whatever the individual selectors find,   *)
(* and otherwise those of _parse_int / _parse_float / _parse_int of the    *)
(* three individual texts.                                                 *)
(***************************************************************************)
C21_DetailsBeforeIndividual ==
    EmittedListing =>
        LET c == The(container)
            Single(elem, Parser(_)) ==
                IF Yields(elem) THEN Parser(YieldedText(elem)).ret ELSE None
            combined == ParseCombinedDetails(YieldedText(c.details))
        IN  IF Yields(c.details)
            THEN combined.exc = None =>
                     /\ TheListing.bedrooms = The(combined.ret).bedrooms
                     /\ TheListing.bathrooms = The(combined.ret).bathrooms
                     /\ TheListing.sqft = The(combined.ret).sqft
            ELSE /\ TheListing.bedrooms = Single(c.bedrooms, ParseInt)
                 /\ TheListing.bathrooms = Single(c.bathrooms, ParseFloat)
                 /\ TheListing.sqft = Single(c.sqft, ParseInt)

(***************************************************************************)
(* C22: in a Listing emitted by either scraper, when the availability      *)
(* selector yields text the move_in_date is _parse_move_in_date of that    *)
(* text, and available is false exactly when the lowered text contains     *)
(* "unavailable" or "not available"; without text available is true and    *)
(* there is no move_in_date.                                               *)
(***************************************************************************)
C22_MoveInDateFromAvailability ==
    EmittedListing =>
        LET c == The(container)
            lowered == Lower(YieldedText(c.availability))
        IN  IF Yields(c.availability)
            THEN /\ TheListing.move_in_date =
                        ParseMoveInDate(YieldedText(c.availability), Today(now)).ret
                 /\ TheListing.available =
                        ~(\/ Contains(lowered, <<"u", "n", "a", "v", "a", "i", "l", "a", "b", "l", "e">>)
                          \/ Contains(lowered, <<"n", "o", "t", " ", "a", "v", "a", "i", "l", "a", "b", "l", "e">>))
            ELSE /\ TheListing.move_in_date = None
                 /\ TheListing.available = TRUE

\* the first value that is not None, None if there is none
RECURSIVE FirstSome(_)
FirstSome(opts) ==
    IF opts = <<>> THEN None
    ELSE IF Head(opts) # None THEN Head(opts) ELSE FirstSome(Tail(opts))
\* _parse_move_in_date has been applied to a text
DateParsed == parsed # None /\ "move_in_date" \in DOMAIN The(parsed)

(***************************************************************************)
(* C23: _parse_move_in_date returns the date of the first of its four      *)
(* rules, in the order now/today, numeric date, month name with year,      *)
(* month name without year, that gives a valid calendar date; a rule whose *)
(* match is not a calendar date is passed over, and the result is None     *)
(* when no rule gives a date.                                              *)
(***************************************************************************)
C23_FirstValidRuleWins ==
    DateParsed =>
        LET text == The(parsed).text
            today == Today(now)
        IN  The(parsed).move_in_date =
                Returned(FirstSome(<<IF SaysNow(Lower(text)) THEN Some(today) ELSE None,
                                     NumericDate(text).ret,
                                     LongDate(Lower(text)).ret,
                                     ShortDate(Lower(text), today).ret>>))
\* the numeric rule matched a text with month 13 and a later rule gave the date
C23_Witness ==
    /\ DateParsed
    /\ ReSearch(NumericDateRe, The(parsed).text) # None
    /\ NumericDate(The(parsed).text).ret = None
    /\ The(parsed).move_in_date.ret = Some([year |-> Today(now).year, month |-> 1, day |-> 2])

(***************************************************************************)
(* C24: _parse_float returns None only for a text without a digit: a text  *)
(* with a digit gives a number, also when a dot comes before its first     *)
(* digit or when it has a second decimal point.                            *)
(***************************************************************************)
C24_FloatAbsentOnlyWithoutDigit ==
    (parsed # None /\ "float" \in DOMAIN The(parsed)) =>
        /\ The(parsed).float.exc = None
        /\ The(parsed).float.ret = None <=>
               SelectSeq(The(parsed).text, IsDigit) = <<>>

(***************************************************************************)
(* Scraper instances (src/scrapers/playwright_scraper.py,                  *)
(* src/scrapers/static_scraper.py, src/scrapers/base.py) as scrape_site    *)
(* uses them.  Releasing a resource (page.close, browser.close,            *)
(* playwright.stop, client.aclose) is taken to succeed.  A call the code   *)
(* gives no timeout (start, launch, new_page, click, the queries) is one   *)
(* step that returns or raises; the three waits the code gives a timeout   *)
(* (goto, wait_for_selector, the client's get) last until the site answers *)
(* or the timeout fires.                                                   *)
(***************************************************************************)
MaxClicks == 2      \* most elements the click-through selector finds
MaxCloses == 2      \* close() calls on one instance
MaxScrapeRuns == 1  \* scrape_all runs whose scrapers are followed step by step

\* page.goto(..., timeout=60000), page.wait_for_selector(..., timeout=30000)
\* in ms; httpx.AsyncClient(timeout=30.0) in s
GotoTimeout == 60000
WaitForSelectorTimeout == 30000
ClientTimeout == 30
\* the timeout that guards the wait at a position, in ms
TimeoutOf(at) ==
    CASE at = "goto" -> GotoTimeout
      [] at = "wait_for" -> WaitForSelectorTimeout
      [] at = "get" -> ClientTimeout * 1000
\* time is observed in steps of this many ms
ClockStep == WaitForSelectorTimeout
Waits == {"goto", "wait_for", "get"}

\* mutant: the wait has no timeout
TimedOut_Never(e, timeout) == FALSE
\* the wait has lasted as long as its timeout allows
TimedOut(e, timeout) == e >= timeout

\* PlaywrightScraper.__init__ / StaticScraper.__init__: nothing is held
NewScraper(config) ==
    [type |-> config.scraper_type, playwright |-> None, browser |-> None,
     client |-> None]

\* the SiteConfig of the running scrape_site
Config == settings[siteIdx]

\* what close() releases on an instance
ReleasedBy(s) ==
    [engines |-> IF s.type = "playwright" /\ s.playwright # None THEN 1 ELSE 0,
     browsers |-> IF s.type = "playwright" /\ s.browser # None THEN 1 ELSE 0,
     pages |-> 0,
     clients |-> IF s.type = "static" /\ s.client # None THEN 1 ELSE 0]
\* mutant: close() releases but keeps the handles
Close_KeepsHandles(s) == s
\* close(): the instance after it
Close(s) ==
    IF s.type = "playwright"
    THEN [s EXCEPT !.browser = None, !.playwright = None]
    ELSE [s EXCEPT !.client = None]

\* mutant: __aexit__ closes only when the block ended without an exception
AExit_OnlyOnSuccess(s, e) == IF e = None THEN ReleasedBy(s) ELSE NoLive
\* __aexit__(exc_type, exc_val, exc_tb): await self.close(), whatever ended
\* the block; what it releases
AExit(s, e) == ReleasedBy(s)

\* mutant: an exception in the try block skips the finally clause
AfterRaiseInTry_SkipsFinally == "exit"
\* where an exception raised inside the try block of scrape() goes
AfterRaiseInTry == "finally"

\* mutant: every listing is appended, seen or not
AddUnseen_NoSeenCheck(acc, seen, listings) ==
    [all_listings |-> acc \o listings, seen_ids |-> seen \cup ListingIds(listings)]
\* for listing in listings: if listing.id not in seen_ids: add and append
RECURSIVE AddUnseen(_, _, _)
AddUnseen(acc, seen, listings) ==
    IF listings = <<>> THEN [all_listings |-> acc, seen_ids |-> seen]
    ELSE IF Head(listings).id \in seen
         THEN AddUnseen(acc, seen, Tail(listings))
         ELSE AddUnseen(Append(acc, Head(listings)),
                        seen \cup {Head(listings).id}, Tail(listings))

\* what one _extract_listings(page) / parse of the response can return
Extractions(site_name) ==
    {[k \in 1..Len(p) |-> ParseListing(site_name, p[k], now)] : p \in Passes(site_name)}

\* of the listings of one extraction, those that come first with an id
\* no earlier extraction had
FirstOfNewIds(listings, earlier) ==
    {listings[k] : k \in {k \in 1..Len(listings) :
                              /\ listings[k].id \notin Ids(earlier)
                              /\ \A j \in 1..(k - 1) : listings[j].id # listings[k].id}}

Noted(event) == trail \cup {<<siteIdx, event>>}

InitScrape ==
    /\ OrchInit
    /\ NoMessage
    /\ now = 0
    /\ container = None
    /\ emitted = None
    /\ parsed = None
    /\ settings \in SettingsChoices
    /\ ScraperInit

\* self._create_scraper(site_config), __aenter__
CreateScraper ==
    /\ pc = "scrape" /\ spc = "none"
    /\ scraper' = Some(NewScraper(Config))
    /\ spc' = "start"
    /\ closes' = 0
    /\ released' = 0
    /\ exc' = None
    /\ scrape_listings' = <<>>
    /\ first_seen' = {}
    /\ acquired' = 0
    /\ trail' = IF siteIdx = 1 THEN {} ELSE trail
    /\ UNCHANGED <<settings, page, elapsed, elements, click_idx, seen_ids,
                   live>>
    /\ UNCHANGED <<orchVars, now, parseVars>>

\* _get_browser: self._playwright = await async_playwright().start()
StartEngine ==
    /\ pc = "scrape" /\ spc = "start" /\ The(scraper).type = "playwright"
    /\ \/ /\ scraper' = Some([The(scraper) EXCEPT !.playwright = Some("engine")])
          /\ live' = [live EXCEPT !.engines = @ + 1]
          /\ acquired' = acquired + 1
          /\ spc' = "launch"
          /\ UNCHANGED <<exc, trail>>
       \/ /\ exc' = Some("Error")
          /\ UNCHANGED trail
          /\ spc' = "exit"
          /\ UNCHANGED <<scraper, live, acquired>>
    /\ UNCHANGED <<settings, page, elapsed, elements, click_idx, seen_ids,
                   scrape_listings, closes, released, first_seen>>
    /\ UNCHANGED <<orchVars, now, parseVars>>

\* _get_browser: self._browser = await self._playwright.chromium.launch(...)
LaunchBrowser ==
    /\ pc = "scrape" /\ spc = "launch"
    /\ \/ /\ scraper' = Some([The(scraper) EXCEPT !.browser = Some("browser")])
          /\ live' = [live EXCEPT !.browsers = @ + 1]
          /\ acquired' = acquired + 1
          /\ spc' = "new_page"
          /\ UNCHANGED <<exc, trail>>
       \/ /\ exc' = Some("Error")
          /\ UNCHANGED trail
          /\ spc' = "exit"
          /\ UNCHANGED <<scraper, live, acquired>>
    /\ UNCHANGED <<settings, page, elapsed, elements, click_idx, seen_ids,
                   scrape_listings, closes, released, first_seen>>
    /\ UNCHANGED <<orchVars, now, parseVars>>

\* page = await browser.new_page(): outside the try block
NewPage ==
    /\ pc = "scrape" /\ spc = "new_page"
    /\ \/ /\ page' = Some("page")
          /\ live' = [live EXCEPT !.pages = @ + 1]
          /\ trail' = Noted("page_opened")
          /\ spc' = "goto"
          /\ elapsed' = 0
          /\ UNCHANGED exc
       \/ /\ exc' = Some("Error")
          /\ UNCHANGED trail
          /\ spc' = "exit"
          /\ UNCHANGED <<page, live, elapsed>>
    /\ UNCHANGED <<settings, scraper, elements, click_idx, seen_ids,
                   scrape_listings, closes, released, first_seen>>
    /\ UNCHANGED <<orchVars, now, parseVars, acquired>>

\* await page.goto(...) ends: the page has loaded, or navigation failed
Goto ==
    /\ pc = "scrape" /\ spc = "goto"
    /\ \/ /\ spc' = IF Config.wait_for # None THEN "wait_for" ELSE "sleep"
          /\ UNCHANGED <<exc, trail>>
       \/ /\ exc' = Some("Error")
          /\ UNCHANGED trail
          /\ spc' = AfterRaiseInTry
    /\ elapsed' = 0
    /\ UNCHANGED <<settings, scraper, page, elements, click_idx, seen_ids,
                   scrape_listings, live, closes, released, first_seen>>
    /\ UNCHANGED <<orchVars, now, parseVars, acquired>>

\* await page.wait_for_selector(...) ends: the selector has appeared
WaitForSelector ==
    /\ pc = "scrape" /\ spc = "wait_for"
    /\ spc' = "sleep"
    /\ elapsed' = 0
    /\ UNCHANGED <<settings, scraper, page, elements, click_idx, seen_ids,
                   scrape_listings, exc, live, closes, released, trail,
                   first_seen>>
    /\ UNCHANGED <<orchVars, now, parseVars, acquired>>

\* the site has not answered yet and the wait goes on
WaitGoesOn ==
    /\ pc = "scrape" /\ spc \in Waits
    /\ elapsed < TimeoutOf(spc)
    /\ elapsed' = elapsed + ClockStep
    /\ UNCHANGED <<settings, scraper, spc, page, elements, click_idx,
                   seen_ids, scrape_listings, exc, live, closes, released,
                   trail, first_seen>>
    /\ UNCHANGED <<orchVars, now, parseVars, acquired>>

\* the timeout of the wait fires: TimeoutError / httpx.TimeoutException
WaitTimesOut ==
    /\ pc = "scrape" /\ spc \in Waits
    /\ TimedOut(elapsed, TimeoutOf(spc))
    /\ exc' = Some("TimeoutError")
    /\ trail' = Noted("timeout")
    /\ spc' = IF spc = "get" THEN "exit" ELSE AfterRaiseInTry
    /\ elapsed' = 0
    /\ UNCHANGED <<settings, scraper, page, elements, click_idx, seen_ids,
                   scrape_listings, live, closes, released, first_seen>>
    /\ UNCHANGED <<orchVars, now, parseVars, acquired>>

\* await asyncio.sleep(2); then the click-through or a plain extraction
Sleep ==
    /\ pc = "scrape" /\ spc = "sleep"
    /\ spc' = IF Config.click_each # None THEN "query" ELSE "extract"
    /\ UNCHANGED <<settings, scraper, page, elapsed, elements, click_idx,
                   seen_ids, scrape_listings, exc, live, closes, released,
                   trail, first_seen>>
    /\ UNCHANGED <<orchVars, now, parseVars, acquired>>

\* _scrape_with_clicks: elements = await page.query_selector_all(...)
QueryElements ==
    /\ pc = "scrape" /\ spc = "query"
    /\ \E n \in 0..MaxClicks :
          /\ elements' = n
          /\ spc' = IF n = 0 THEN "finally" ELSE "click"
    /\ click_idx' = 1
    /\ seen_ids' = {}
    /\ scrape_listings' = <<>>
    /\ UNCHANGED <<settings, scraper, page, elapsed, exc, live, closes,
                   released, trail, first_seen>>
    /\ UNCHANGED <<orchVars, now, parseVars, acquired>>

\* await element.click(force=True); await asyncio.sleep(wait_after / 1000)
Click ==
    /\ pc = "scrape" /\ spc = "click"
    /\ \/ /\ spc' = "extract"
          /\ UNCHANGED <<exc, trail>>
       \/ /\ exc' = Some("Error")
          /\ UNCHANGED trail
          /\ spc' = AfterRaiseInTry
    /\ UNCHANGED <<settings, scraper, page, elapsed, elements, click_idx,
                   seen_ids, scrape_listings, live, closes, released,
                   first_seen>>
    /\ UNCHANGED <<orchVars, now, parseVars, acquired>>

\* listings = await self._extract_listings(page), then the dedup loop of
\* the click-through, or the return of the plain extraction
Extract ==
    /\ pc = "scrape" /\ spc = "extract"
    /\ \/ \E listings \in Extractions(site) :
             IF Config.click_each # None
             THEN /\ scrape_listings' =
                        AddUnseen(scrape_listings, seen_ids, listings).all_listings
                  /\ seen_ids' = AddUnseen(scrape_listings, seen_ids, listings).seen_ids
                  /\ first_seen' = first_seen \cup FirstOfNewIds(listings, first_seen)
                  /\ click_idx' = click_idx + 1
                  /\ spc' = IF click_idx < elements THEN "click" ELSE "finally"
                  /\ trail' = IF ListingIds(listings) \cap seen_ids # {}
                              THEN Noted("repeat") ELSE trail
                  /\ UNCHANGED exc
             ELSE /\ scrape_listings' = listings
                  /\ spc' = "finally"
                  /\ UNCHANGED <<seen_ids, first_seen, click_idx, exc, trail>>
       \/ /\ exc' = Some("Error")
          /\ UNCHANGED trail
          /\ spc' = AfterRaiseInTry
          /\ UNCHANGED <<scrape_listings, seen_ids, first_seen, click_idx>>
    /\ UNCHANGED <<settings, scraper, page, elapsed, elements, live, closes,
                   released>>
    /\ UNCHANGED <<orchVars, now, parseVars, acquired>>

\* finally: await page.close()
Finally ==
    /\ pc = "scrape" /\ spc = "finally"
    /\ page' = None
    /\ live' = [live EXCEPT !.pages = @ - 1]
    /\ spc' = "exit"
    /\ UNCHANGED <<settings, scraper, elapsed, elements, click_idx, seen_ids,
                   scrape_listings, exc, closes, released, trail,
                   first_seen>>
    /\ UNCHANGED <<orchVars, now, parseVars, acquired>>

\* StaticScraper._get_client: the client is created when there is none
GetClient ==
    /\ pc = "scrape" /\ spc = "start" /\ The(scraper).type = "static"
    /\ scraper' = Some([The(scraper) EXCEPT !.client = Some("client")])
    /\ live' = [live EXCEPT !.clients = @ + 1]
    /\ acquired' = acquired + 1
    /\ spc' = "get"
    /\ elapsed' = 0
    /\ UNCHANGED <<settings, page, elements, click_idx, seen_ids,
                   scrape_listings, exc, closes, released, trail,
                   first_seen>>
    /\ UNCHANGED <<orchVars, now, parseVars>>

\* response = await client.get(url) ends; raise_for_status(); the parse loop
Get ==
    /\ pc = "scrape" /\ spc = "get"
    /\ \/ \E listings \in Extractions(site) :
             /\ scrape_listings' = listings
             /\ UNCHANGED <<exc, trail>>
       \/ /\ exc' = Some("HTTPError")
          /\ UNCHANGED trail
          /\ UNCHANGED scrape_listings
    /\ spc' = "exit"
    /\ elapsed' = 0
    /\ UNCHANGED <<settings, scraper, page, elements, click_idx, seen_ids,
                   live, closes, released, first_seen>>
    /\ UNCHANGED <<orchVars, now, parseVars, acquired>>

\* the async with block ends, by return or by exception: __aexit__
ExitBlock ==
    /\ pc = "scrape" /\ spc = "exit"
    /\ live' = [f \in DOMAIN live |-> live[f] - AExit(The(scraper), exc)[f]]
    /\ released' = AExit(The(scraper), exc).engines + AExit(The(scraper), exc).browsers
                       + AExit(The(scraper), exc).clients
    /\ scraper' = IF AExit(The(scraper), exc) = NoLive
                  THEN scraper ELSE Some(Close(The(scraper)))
    /\ closes' = closes + 1
    /\ spc' = "closed"
    /\ UNCHANGED <<settings, page, elapsed, elements, click_idx, seen_ids,
                   scrape_listings, exc, trail, first_seen>>
    /\ UNCHANGED <<orchVars, now, parseVars, acquired>>

\* close() is called on the instance once more
CloseAgain ==
    /\ pc = "scrape" /\ spc = "closed"
    /\ closes < MaxCloses
    /\ live' = [f \in DOMAIN live |-> live[f] - ReleasedBy(The(scraper))[f]]
    /\ released' = ReleasedBy(The(scraper)).engines + ReleasedBy(The(scraper)).browsers
                       + ReleasedBy(The(scraper)).clients
    /\ scraper' = Some(Close(The(scraper)))
    /\ closes' = closes + 1
    /\ UNCHANGED <<settings, spc, page, elapsed, elements, click_idx,
                   seen_ids, scrape_listings, exc, trail, first_seen>>
    /\ UNCHANGED <<orchVars, now, parseVars, acquired>>

\* all_listings = await scraper.scrape() is bound and the for-loop starts,
\* or the exception leaves scrape_site
ScrapeEnds ==
    /\ pc = "scrape" /\ spc = "closed"
    /\ IF exc = None
       THEN /\ all_listings' = scrape_listings
            /\ i' = 1
            /\ pc' = IF Len(scrape_listings) = 0 THEN "stale" ELSE "check"
            /\ UNCHANGED outcome
       ELSE /\ outcome' = "raised"
            /\ pc' = AfterScrapeSite
            /\ UNCHANGED <<all_listings, i>>
    /\ scraper' = None
    /\ spc' = "none"
    /\ page' = None
    /\ elapsed' = 0
    /\ elements' = 0
    /\ click_idx' = 0
    /\ seen_ids' = {}
    /\ scrape_listings' = <<>>
    /\ exc' = None
    /\ closes' = 0
    /\ released' = 0
    /\ first_seen' = {}
    /\ acquired' = 0
    /\ UNCHANGED <<live, trail>>
    /\ UNCHANGED <<db, now, mode, siteIdx, site, new_listings, removed_listings,
                   all_new_listings, all_removed_listings, last_scrape,
                   response, runs, db0, staleRows, lastSaved, siteLog, prevIds, prevCall, run2,
                   message, chunks>>
    /\ UNCHANGED <<parseVars, settings>>

\* scrape_all is called
ScrapeAllCalled ==
    /\ runs < MaxScrapeRuns
    /\ StartScrapeAll

NextScrape ==
    \/ ScrapeAllCalled
    \/ CreateScraper
    \/ StartEngine
    \/ LaunchBrowser
    \/ NewPage
    \/ Goto
    \/ WaitForSelector
    \/ WaitGoesOn
    \/ WaitTimesOut
    \/ Sleep
    \/ QueryElements
    \/ Click
    \/ Extract
    \/ Finally
    \/ GetClient
    \/ Get
    \/ ExitBlock
    \/ CloseAgain
    \/ ScrapeEnds
    \/ CheckNew
    \/ Save
    \/ RemoveStale
    \/ ReturnFromScrapeSite
    \/ Aggregate

SpecScrape == InitScrape /\ [][NextScrape]_vars

\* the steps the event loop takes by itself: every step of the coroutine
\* but the answer of a site (Goto, WaitForSelector, Get), and the passing of
\* time.  Nothing makes a site answer and nothing makes scrape_all be called.
Scheduled ==
    \/ CreateScraper
    \/ StartEngine
    \/ LaunchBrowser
    \/ NewPage
    \/ WaitGoesOn
    \/ WaitTimesOut
    \/ Sleep
    \/ QueryElements
    \/ Click
    \/ Extract
    \/ Finally
    \/ GetClient
    \/ ExitBlock
    \/ ScrapeEnds
    \/ CheckNew
    \/ Save
    \/ RemoveStale
    \/ ReturnFromScrapeSite
    \/ Aggregate

SpecScrapeLive == SpecScrape /\ WF_vars(Scheduled)

(***************************************************************************)
(* Vocabulary of the scraper claims.                                       *)
(***************************************************************************)
\* the running scrape is a click-through
ClickThrough == pc = "scrape" /\ scraper # None /\ Config.click_each # None
\* the instance holds no browser, no engine and no client
HoldsNothing(s) == s.browser = None /\ s.playwright = None /\ s.client = None
\* positions of scrape() at which a page is open: from new_page's return to
\* the finally clause
PageOpenAt == {"goto", "wait_for", "sleep", "query", "click", "extract", "finally"}
PageOpened(idx) == <<idx, "page_opened">> \in trail

(***************************************************************************)
(* C11: the list a click-through scrape accumulates holds every id that    *)
(* any extraction so far returned, each id once, and for each id the       *)
(* record of its first occurrence in click order.                          *)
(***************************************************************************)
C11_ClickThroughDedup ==
    ClickThrough =>
        /\ {scrape_listings[k] : k \in 1..Len(scrape_listings)} = first_seen
        /\ Cardinality(ListingIds(scrape_listings)) = Len(scrape_listings)
        /\ ListingIds(scrape_listings) = seen_ids
C11_Witness ==
    /\ ClickThrough /\ spc = "finally" /\ exc = None
    /\ elements = MaxClicks
    /\ <<siteIdx, "repeat">> \in trail
    /\ scrape_listings # <<>>

(***************************************************************************)
(* C12: outside the try block of scrape() no page is open: the page a      *)
(* scrape call opened is closed when the call returns or raises, whatever  *)
(* ended it, and stays so over the scrape calls that follow.               *)
(***************************************************************************)
C12_PagesClosed ==
    spc \notin PageOpenAt => live.pages = 0 /\ page = None
C12_Witness ==
    /\ siteIdx = 2 /\ PageOpened(1) /\ PageOpened(2)
    /\ spc = "exit" /\ exc = Some("TimeoutError")
    /\ live.pages = 0

(***************************************************************************)
(* C13: after close() the instance holds no browser, engine or client; the *)
(* first close() releases what the instance acquired, each once; a further *)
(* close(), or a close() of an instance that acquired nothing, releases    *)
(* nothing; nothing is released twice.                                     *)
(***************************************************************************)
C13_CloseOnce ==
    (pc = "scrape" /\ spc = "closed") =>
        /\ HoldsNothing(The(scraper))
        /\ closes = 1 => released = acquired
        /\ closes > 1 => released = 0
        /\ \A f \in DOMAIN live : live[f] >= 0
C13_Witness ==
    /\ pc = "scrape" /\ spc = "closed"
    /\ closes = 2 /\ acquired = 2 /\ released = 0
C13_NeverOpenedWitness ==
    /\ pc = "scrape" /\ spc = "closed"
    /\ closes = 1 /\ acquired = 0 /\ released = 0

(***************************************************************************)
(* C14: when scrape_site is past its async with block, by return or by     *)
(* exception, the instance has been closed and no engine, browser, page or *)
(* client that the call acquired is still open.                            *)
(***************************************************************************)
C14_ClosedBeforeLeaving ==
    /\ pc # "scrape" => live = NoLive /\ scraper = None
    /\ (pc = "scrape" /\ spc \in {"none", "closed"}) => live = NoLive
C14_Witness ==
    /\ pc = "agg" /\ outcome = "raised"
    /\ PageOpened(siteIdx)
    /\ live = NoLive

(***************************************************************************)
(* C18: a scrape that has started ends, by return or by exception, and the *)
(* scrape_all run it belongs to finishes with every site processed, even   *)
(* if no site ever answers.                                                *)
(***************************************************************************)
C18_RunFinishes ==
    /\ (pc = "scrape") ~> (pc # "scrape")
    /\ (pc = "scrape") ~> (pc = "all_done" /\ Len(siteLog) = Len(Sites))
C18_Witness ==
    /\ pc = "all_done" /\ Len(siteLog) = Len(Sites)
    /\ <<1, "timeout">> \in trail

(***************************************************************************)
(* C25: when scrape_site has raised inside a scrape_all run, the rows of   *)
(* its site are the rows the store held when that scrape_site started:     *)
(* the failed iteration inserted, overwrote and deleted none.              *)
(***************************************************************************)
C25_FailedSiteKeepsStore ==
    (mode = "all" /\ pc = "agg" /\ outcome = "raised") =>
        {r \in db : r.site_name = site} = {r \in db0 : r.site_name = site}

\* the running scrape_site is the second call in a row for its site, and its
\* pass holds the ids the pass of the first call held
SecondCallSameIds == Extracted /\ prevCall = Some(ListingIds(all_listings))

(***************************************************************************)
(* C27: in a scrape_site call that follows a call for the same site and    *)
(* whose pass holds the same ids, no Listing is classified new, no row is  *)
(* removed as stale, the ids in the store stay what they were when the     *)
(* call started, and the call returns.                                     *)
(***************************************************************************)
C27_SecondCallIdempotent ==
    SecondCallSameIds =>
        /\ new_listings = <<>>
        /\ staleRows = {}
        /\ Ids(db) = Ids(db0)
        /\ SiteEnded => outcome = "returned"
C27_Witness ==
    /\ SecondCallSameIds /\ pc = "site_done"
    /\ Len(all_listings) > 1
    /\ outcome = "returned"
    /\ \E r \in db : r.site_name # site

(***************************************************************************)
(* TelegramClient._split_message (src/messaging/telegram.py)               *)
(***************************************************************************)
MaxTextLen == 5     \* longest text handed to _split_message
MaxLength == 4      \* largest max_length handed to _split_message
TextChars == {"a", " ", "\n"}

\* text.split("\n")
RECURSIVE SplitLines(_, _)
SplitLines(text, line) ==
    IF text = <<>> THEN <<line>>
    ELSE IF Head(text) = "\n" THEN <<line>> \o SplitLines(Tail(text), <<>>)
    ELSE SplitLines(Tail(text), Append(line, Head(text)))

\* the for-loop over the lines and the statements after it
RECURSIVE SplitLoop(_, _, _, _)
SplitLoop(lines, max_length, current, out) ==
    IF lines = <<>>
    THEN IF current # <<>> THEN Append(out, RStrip(current)) ELSE out
    ELSE LET line == Head(lines) IN
         IF Len(current) + Len(line) + 1 > max_length
         THEN SplitLoop(Tail(lines), max_length, line \o <<"\n">>,
                        IF current # <<>> THEN Append(out, RStrip(current)) ELSE out)
         ELSE SplitLoop(Tail(lines), max_length, current \o line \o <<"\n">>, out)

SplitMessage(text, max_length) ==
    IF Len(text) <= max_length THEN <<text>>
    ELSE SplitLoop(SplitLines(text, <<>>), max_length, <<>>, <<>>)

\* a text and a max_length are handed to _split_message
InitSplit ==
    /\ OrchInit
    /\ message \in {Some([text |-> t, max_length |-> n]) :
                        t \in SeqsUpTo(TextChars, MaxTextLen), n \in 0..MaxLength}
    /\ chunks = None
    /\ now = 0
    /\ container = None
    /\ emitted = None
    /\ parsed = None
    /\ settings = DefaultSettings
    /\ ScraperInit

\* self._split_message(text, max_length)
SplitMessageCalled ==
    /\ message # None /\ chunks = None
    /\ chunks' = Some(SplitMessage(The(message).text, The(message).max_length))
    /\ UNCHANGED <<db, pc, mode, siteIdx, site, all_listings, i, new_listings,
                   removed_listings, outcome, all_new_listings,
                   all_removed_listings, last_scrape, response, runs, db0,
                   staleRows, lastSaved, siteLog, prevIds, prevCall, run2,
                   message>>
    /\ UNCHANGED <<now, parseVars, scraperVars>>

NextSplit == SplitMessageCalled

SpecSplit == InitSplit /\ [][NextSplit]_vars

\* the lines of the chunks, in order
RECURSIVE ChunkLines(_)
ChunkLines(cs) ==
    IF cs = <<>> THEN <<>> ELSE SplitLines(Head(cs), <<>>) \o ChunkLines(Tail(cs))

(***************************************************************************)
(* C28: _split_message returns a non-empty list of chunks, each at most    *)
(* max_length characters long; the lines of the chunks, in order, are the  *)
(* lines of the text; a text of at most max_length characters is returned  *)
(* as one chunk equal to it.                                               *)
(***************************************************************************)
C28_ChunksWithinMaxLength ==
    chunks # None =>
        LET text == The(message).text
            max_length == The(message).max_length
            cs == The(chunks)
        IN /\ cs # <<>>
           /\ \A k \in 1..Len(cs) : Len(cs[k]) <= max_length
           /\ ChunkLines(cs) = SplitLines(text, <<>>)
           /\ Len(text) <= max_length => cs = <<text>>

(***************************************************************************)
(* Two overlapping runs (src/server.py): a "scrape <site>" command is      *)
(* being handled when a second one for the same site arrives; the handlers *)
(* are coroutines on one event loop and take turns at their awaits         *)
(***************************************************************************)
\* the variables of the first run
firstRunVars == <<pc, mode, siteIdx, site, all_listings, i, new_listings,
                  removed_listings, outcome, all_new_listings,
                  all_removed_listings, last_scrape, response, runs, db0,
                  staleRows, siteLog, prevIds, prevCall>>

\* the first command arrives
FirstRunStarts == runs = 0 /\ StartScrapeSite

\* the first run is inside scrape_site
InScrapeSite == pc \in {"scrape", "check", "save", "stale", "ret"}

\* _handle_scrape_site is called again while the first call is running:
\* the locals of the second scrape_site
OtherRunStarts ==
    /\ run2 = None
    /\ InScrapeSite
    /\ run2' = Some([pc |-> "scrape", all_listings |-> <<>>, i |-> 0,
                     new_listings |-> <<>>, removed_listings |-> NoResult,
                     outcome |-> "none"])
    /\ UNCHANGED <<firstRunVars, db, now, lastSaved, message, chunks>>
    /\ UNCHANGED <<parseVars, scraperVars>>

\* the second run is at the given position
OtherAt(position) == run2 # None /\ The(run2).pc = position

\* second run: scraper.scrape() returns the Listings of one pass
OtherScrapeReturns ==
    /\ OtherAt("scrape")
    /\ \E p \in Passes(site) :
          run2' = Some([The(run2) EXCEPT
                            !.all_listings =
                                [k \in 1..Len(p) |-> ParseListing(site, p[k], now)],
                            !.i = 1,
                            !.pc = IF Len(p) = 0 THEN "stale" ELSE "check"])
    /\ UNCHANGED <<firstRunVars, db, now, lastSaved, message, chunks>>
    /\ UNCHANGED <<parseVars, scraperVars>>

\* second run: scraper.scrape() raises, and the handler answers the error
OtherScrapeRaises ==
    /\ OtherAt("scrape")
    /\ run2' = Some([The(run2) EXCEPT !.outcome = "raised", !.pc = "handled"])
    /\ UNCHANGED <<firstRunVars, db, now, lastSaved, message, chunks>>
    /\ UNCHANGED <<parseVars, scraperVars>>

\* second run: if await self.db.is_new_listing(listing.id): ...
OtherCheckNew ==
    /\ OtherAt("check")
    /\ LET r == The(run2) IN
          run2' = Some([r EXCEPT
                            !.new_listings =
                                IF IsNewListing(db, r.all_listings[r.i].id)
                                THEN Append(r.new_listings, r.all_listings[r.i])
                                ELSE r.new_listings,
                            !.pc = "save"])
    /\ UNCHANGED <<firstRunVars, db, now, lastSaved, message, chunks>>
    /\ UNCHANGED <<parseVars, scraperVars>>

\* second run: await self.db.save_listing(listing)
OtherSave ==
    /\ OtherAt("save")
    /\ LET r == The(run2) IN
          /\ db' = SaveListing(db, r.all_listings[r.i], now)
          /\ lastSaved' = {l \in lastSaved : l.id # r.all_listings[r.i].id}
                              \cup {r.all_listings[r.i]}
          /\ run2' = Some([r EXCEPT
                               !.i = r.i + 1,
                               !.pc = IF r.i < Len(r.all_listings)
                                      THEN "check" ELSE "stale"])
    /\ UNCHANGED <<firstRunVars, now, message, chunks>>
    /\ UNCHANGED <<parseVars, scraperVars>>

\* second run: removed_listings = await self.db.remove_stale_listings(...)
OtherRemoveStale ==
    /\ OtherAt("stale")
    /\ LET r == The(run2)
           current_ids == ListingIds(r.all_listings)
       IN /\ db' = RemoveStaleListings(db, site, current_ids)
          /\ lastSaved' = {l \in lastSaved :
                              l.id \in Ids(RemoveStaleListings(db, site, current_ids))}
          /\ run2' = Some([r EXCEPT
                               !.removed_listings =
                                   RemoveStaleResult(db, site, current_ids),
                               !.pc = "ret"])
    /\ UNCHANGED <<firstRunVars, now, message, chunks>>
    /\ UNCHANGED <<parseVars, scraperVars>>

\* second run: the logging of the removed listings and the return
OtherReturn ==
    /\ OtherAt("ret")
    /\ run2' = Some([The(run2) EXCEPT
                         !.outcome =
                             IF ScrapeSiteRaisesOnLen(The(run2).removed_listings)
                             THEN "raised" ELSE "returned",
                         !.pc = "handled"])
    /\ UNCHANGED <<firstRunVars, db, now, lastSaved, message, chunks>>
    /\ UNCHANGED <<parseVars, scraperVars>>

NextOverlap ==
    \/ FirstRunStarts
    \/ ScrapeReturns
    \/ ScrapeRaises
    \/ CheckNew
    \/ Save
    \/ RemoveStale
    \/ ReturnFromScrapeSite
    \/ HandleScrapeSiteReply
    \/ OtherRunStarts
    \/ OtherScrapeReturns
    \/ OtherScrapeRaises
    \/ OtherCheckNew
    \/ OtherSave
    \/ OtherRemoveStale
    \/ OtherReturn

SpecOverlap == Init /\ [][NextOverlap]_vars

\* both runs have checked the id of their current Listing and neither has
\* saved it yet
BothBetweenCheckAndSave ==
    /\ pc = "save" /\ OtherAt("save")
    /\ all_listings[i].id = The(run2).all_listings[The(run2).i].id

(***************************************************************************)
(* C26: when two runs for the same site overlap, no id is in the           *)
(* new_listings of both, and the two runs are never both between the       *)
(* is_new_listing check and the save_listing of the same id.               *)
(***************************************************************************)
C26_NewInOneRunOnly ==
    run2 # None =>
        /\ ListingIds(new_listings) \cap ListingIds(The(run2).new_listings) = {}
        /\ ~BothBetweenCheckAndSave

====
